---- MODULE Spec2Model ----
(***************************************************************************)
(* AgentPaymentVault: a custodial vault in which funds deposit a token,    *)
(* authorize bots and bound them with daily and per-transaction limits;    *)
(* bots debit a fund to pay a recipient, a platform fee going to the       *)
(* treasury.  The model follows the Solidity contract: every external      *)
(* function is one action, a failed require reverts the whole call.  The   *)
(* token is another contract: deposit, withdraw and purchaseOnBehalf hand  *)
(* control to it, and it may call the vault before it returns.  The        *)
(* actions of these three take the calls made from inside each transfer as *)
(* an input; the calls run on the storage the outer call has written so    *)
(* far and are reverted with it.  The same three are also taken in steps,  *)
(* one step up to each transfer, with the calls in between as steps of     *)
(* their own.                                                              *)
(***************************************************************************)
EXTENDS Integers, Sequences, FiniteSets, TLC

\* ------------------------------------------------------------------ constants
\* uint256 public platformFeeBps = 200
DEFAULT_FEE_BPS == 200
MAX_PLATFORM_FEE_BPS == 1000
BPS_DIVISOR == 10000
\* "1 days" in seconds
DAY == 86400
\* the token's decimals; one dollar is 10^6 units
DECIMALS == 6
Dollar == 10 ^ DECIMALS

\* ------------------------------------------------------------------ identities
Null == "0x0"
Vault == "vault"
Owner == "owner"
Funds == {"fund1", "fund2"}
Bots == {"bot1", "bot2"}
Recipients == {"recipient"}
Treasuries == {"treasury", "treasury2"}
Holders == Funds \cup Recipients \cup Treasuries \cup {Vault}

\* ------------------------------------------------------------------ bounds
\* the ledger holds at most MaxPurchases purchases
MaxPurchases == 1
\* the clock advances at most MaxTicks times
MaxTicks == 1
\* each fund deposits at most MaxDeposited tokens over the run
MaxDeposited == 306

\* the scenario runs: purchases in the ledger, half-day clock advances
ScenarioPurchases == 3
ScenarioTicks == 2

\* the fee runs: purchases in the ledger
FeePurchases == 1

\* the two-fund runs: purchases in the ledger, clock advances
FundsPurchases == 3
FundsTicks == 1

\* the limit runs: purchases in the ledger, clock advances
LimitsPurchases == 2
LimitsTicks == 1

\* the ledger runs: purchases in the ledger
LedgerPurchases == 2

\* the custody runs: purchases in the ledger
CustodyPurchases == 2

\* the re-entrant runs: purchases in the ledger
ReentrantPurchases == 1

\* the bucket runs: purchases, and half days the clock moves on
BucketPurchases == 2
BucketTicks == 2

\* the tenure runs: purchases, and days the clock moves on
TenurePurchases == 2
TenureTicks == 2

\* the frame runs: purchases
FramePurchases == 1

\* the in-flight runs: purchases
InFlightPurchases == 2

\* the spending runs: purchases, and days the clock moves on
SpendPurchases == 3
SpendTicks == 1

\* the guard runs: tokens the fund deposits over the run
GuardsDeposited == 200

\* the custody runs: tokens and dollars the token's supply grows to
CustodySupply == 600
CustodyDollars == 1

\* the sum runs: purchases in the ledger, tokens each fund deposits
SumsPurchases == 3
SumsDeposited == 300

\* the nested runs: purchases, and days the clock moves on
NestedPurchases == 1
NestedTicks == 1

\* block.timestamp at deployment (day index 20000, at midnight)
StartTime == 20000 * DAY
HalfDay == DAY \div 2
\* tokens minted to every fund's wallet before the run
Minted == 500
Metadata == {"Test"}


VARIABLES
  fundAccounts,         \* mapping(address => FundAccount)
  purchases,            \* Purchase[]; purchase id i is purchases[i + 1]
  fundPurchaseIndices,  \* mapping(address => uint256[])
  platformFeeBps,
  treasury,
  now,                  \* block.timestamp
  tok,                  \* the token's balanceOf, by holder
  last,                 \* the most recent call and its outcome
  calls,                \* history: per fund, what its successful calls moved
  ticks,                \* number of clock advances so far
  frame                 \* the call that is waiting for the token to return

vars == <<fundAccounts, purchases, fundPurchaseIndices, platformFeeBps, treasury,
          now, tok, last, calls, ticks, frame>>

\* ------------------------------------------------------------------ helpers
\* floor(a * b / d).  The contract multiplies in 256 bits; the product is
\* split on d here so that no intermediate value leaves the checker's
\* 32-bit integers: a = q*d + r gives a*b = q*b*d + r*b.
MulDiv(a, b, d) == (a \div d) * b + ((a % d) * b) \div d

EmptyAccount ==
  [balance |-> 0, dailySpendingLimit |-> 0, perTransactionLimit |-> 0,
   todaySpent |-> 0, lastResetDay |-> 0, authorizedBots |-> {}]

\* history of one fund: the sums its successful calls moved
NoCalls ==
  [deposited |-> 0, withdrawn |-> 0]

\* the vault's storage and the token's balances
Storage(accounts, ledger, indices, feeBps, feeTo, balances) ==
  [fundAccounts |-> accounts, purchases |-> ledger, fundPurchaseIndices |-> indices,
   platformFeeBps |-> feeBps, treasury |-> feeTo, tok |-> balances]

NoCall(minted) ==
  [op |-> "constructor", sender |-> Owner, fund |-> Null, who |-> Null,
   amount |-> 0, arg2 |-> 0, err |-> "", ret |-> 0, transfers |-> <<>>,
   inside |-> <<>>, seen |-> EmptyAccount,
   before |-> Storage([f \in Funds |-> EmptyAccount], <<>>, [f \in Funds |-> <<>>],
                      DEFAULT_FEE_BPS, "treasury",
                      [h \in Holders |-> IF h \in Funds THEN minted ELSE 0])]

\* the storage now
Current ==
  Storage(fundAccounts, purchases, fundPurchaseIndices, platformFeeBps, treasury, tok)

\* A call and its outcome.  transfers: the token's answers to the transfers
\* the call requested, in order; inside: for each of these transfers, the
\* calls made from inside it and their errors; seen: the fund's account as the
\* call's checks read it; before: the storage when the call began.
Outcome(op, sender, fund, who, amount, arg2, err, ret, transfers, inside, seen) ==
  [op |-> op, sender |-> sender, fund |-> fund, who |-> who,
   amount |-> amount, arg2 |-> arg2, err |-> err, ret |-> ret,
   transfers |-> transfers, inside |-> inside, seen |-> seen,
   before |-> Storage(fundAccounts, purchases, fundPurchaseIndices,
                      platformFeeBps, treasury, tok)]

\* a call that requests no transfer, or none with a call from inside it
Call(op, sender, fund, who, amount, arg2, err, ret, transfers, seen) ==
  [op |-> op, sender |-> sender, fund |-> fund, who |-> who,
   amount |-> amount, arg2 |-> arg2, err |-> err, ret |-> ret,
   transfers |-> transfers, inside |-> <<>>, seen |-> seen,
   before |-> Storage(fundAccounts, purchases, fundPurchaseIndices,
                      platformFeeBps, treasury, tok)]

\* no call is waiting for the token
NoFrame == [op |-> "none"]

\* nonReentrant without the check
nonReentrantOff(entered) == TRUE

\* modifier nonReentrant: the call goes on only when no guarded call of the
\* vault is in progress
nonReentrant(entered) == entered.op = "none"

\* Revert that keeps the writes made before the failed require
RevertKeepsWrites(before, written) == written

\* What a failed require leaves behind: the EVM discards every write the
\* call made, so the state before the call stands.
Revert(before, written) == before

\* The token's transfer / transferFrom returns true: the token allows it
\* (allowance, not paused, ...) and the source holds the amount.
TokenMoves(allowed, from, amount) == allowed /\ tok[from] >= amount

TokenAfter(t, from, to, amount) ==
  IF from = to THEN t
  ELSE [t EXCEPT ![from] = @ - amount, ![to] = @ + amount]

\* ------------------------------------------------------------------ Init
InitWith(minted) ==
  /\ fundAccounts = [f \in Funds |-> EmptyAccount]
  /\ purchases = <<>>
  /\ fundPurchaseIndices = [f \in Funds |-> <<>>]
  /\ platformFeeBps = DEFAULT_FEE_BPS
  /\ treasury = "treasury"
  /\ now = StartTime
  /\ tok = [h \in Holders |-> IF h \in Funds THEN minted ELSE 0]
  /\ last = NoCall(minted)
  /\ calls = [f \in Funds |-> NoCalls]
  /\ ticks = 0
  /\ frame = NoFrame

Init == InitWith(Minted)

\* ConstructorError without the treasury check
ConstructorErrorAnyTreasury(usdcAddress, treasuryAddress) ==
  IF usdcAddress = Null THEN "Invalid USDC address" ELSE ""

\* the requires of the constructor
ConstructorError(usdcAddress, treasuryAddress) ==
  IF usdcAddress = Null THEN "Invalid USDC address"
  ELSE IF treasuryAddress = Null THEN "Invalid treasury address"
  ELSE ""

\* the state after constructor(usdcAddress, treasuryAddress) has gone through
Constructed(minted, usdcAddress, treasuryAddress) ==
  /\ ConstructorError(usdcAddress, treasuryAddress) = ""
  /\ fundAccounts = [f \in Funds |-> EmptyAccount]
  /\ purchases = <<>>
  /\ fundPurchaseIndices = [f \in Funds |-> <<>>]
  /\ platformFeeBps = DEFAULT_FEE_BPS
  /\ treasury = treasuryAddress
  /\ now = StartTime
  /\ tok = [h \in Holders |-> IF h \in Funds THEN minted ELSE 0]
  /\ last = [NoCall(minted) EXCEPT !.who = treasuryAddress,
                                   !.before.treasury = treasuryAddress]
  /\ calls = [f \in Funds |-> NoCalls]
  /\ ticks = 0
  /\ frame = NoFrame

\* ------------------------------------------------------------------ deposit, withdraw: the requires
DepositError(amount, moved) ==
  IF ~(amount > 0) THEN "Amount must be greater than 0"
  ELSE IF ~moved THEN "Transfer failed"
  ELSE ""

\* Credit that sets the balance to the amount
CreditOverwrites(account, amount) == [account EXCEPT !.balance = amount]

\* account.balance += amount
Credit(account, amount) == [account EXCEPT !.balance = @ + amount]

\* WithdrawError that asks for more than the amount
WithdrawErrorStrict(account, amount, moved) ==
  IF ~(amount > 0) THEN "Amount must be greater than 0"
  ELSE IF ~(account.balance > amount) THEN "Insufficient balance"
  ELSE IF ~moved THEN "Transfer failed"
  ELSE ""

WithdrawError(account, amount, moved) ==
  IF ~(amount > 0) THEN "Amount must be greater than 0"
  ELSE IF ~(account.balance >= amount) THEN "Insufficient balance"
  ELSE IF ~moved THEN "Transfer failed"
  ELSE ""

\* account.balance -= amount
Debit(account, amount) == [account EXCEPT !.balance = @ - amount]

\* ------------------------------------------------------------------ bots
\* AuthorizeError without the membership check
AuthorizeErrorAgain(account, bot) ==
  IF bot = Null THEN "Invalid bot address" ELSE ""

AuthorizeError(account, bot) ==
  IF bot = Null THEN "Invalid bot address"
  ELSE IF bot \in account.authorizedBots THEN "Bot already authorized"
  ELSE ""

\* authorizeBot that keeps one list of bots for all funds
authorizeBotForAll(sender, bot) ==
  LET account == fundAccounts[sender]
      err == AuthorizeError(account, bot)
  IN /\ fundAccounts' = IF err = ""
          THEN [f \in Funds |->
                  [fundAccounts[f] EXCEPT !.authorizedBots = @ \cup {bot}]]
          ELSE fundAccounts
     /\ last' = Call("authorizeBot", sender, sender, bot, 0, 0, err, 0, <<>>, account)
     /\ UNCHANGED <<purchases, fundPurchaseIndices, platformFeeBps, treasury, now,
                    tok, calls, ticks, frame>>

authorizeBot(sender, bot) ==
  LET account == fundAccounts[sender]
      err == AuthorizeError(account, bot)
  IN /\ fundAccounts' = IF err = ""
          THEN [fundAccounts EXCEPT ![sender].authorizedBots = @ \cup {bot}]
          ELSE fundAccounts
     /\ last' = Call("authorizeBot", sender, sender, bot, 0, 0, err, 0, <<>>, account)
     /\ UNCHANGED <<purchases, fundPurchaseIndices, platformFeeBps, treasury, now,
                    tok, calls, ticks, frame>>

RevokeError(account, bot) ==
  IF bot \notin account.authorizedBots THEN "Bot not authorized" ELSE ""

revokeBot(sender, bot) ==
  LET account == fundAccounts[sender]
      err == RevokeError(account, bot)
  IN /\ fundAccounts' = IF err = ""
          THEN [fundAccounts EXCEPT ![sender].authorizedBots = @ \ {bot}]
          ELSE fundAccounts
     /\ last' = Call("revokeBot", sender, sender, bot, 0, 0, err, 0, <<>>, account)
     /\ UNCHANGED <<purchases, fundPurchaseIndices, platformFeeBps, treasury, now,
                    tok, calls, ticks, frame>>

\* ------------------------------------------------------------------ limits
\* SetLimitsError that compares the limits also when the daily limit is 0
SetLimitsErrorAlways(dailyLimit, perTransactionLimit) ==
  IF ~(perTransactionLimit <= dailyLimit)
    THEN "Per-tx limit exceeds daily limit" ELSE ""

\* SetLimitsError that never refuses
SetLimitsErrorNever(dailyLimit, perTransactionLimit) == ""

SetLimitsError(dailyLimit, perTransactionLimit) ==
  IF ~(perTransactionLimit <= dailyLimit \/ dailyLimit = 0)
    THEN "Per-tx limit exceeds daily limit" ELSE ""

\* setLimits that starts the day's spending over
setLimitsRestarts(sender, dailyLimit, perTransactionLimit) ==
  LET err == SetLimitsError(dailyLimit, perTransactionLimit)
  IN /\ fundAccounts' = IF err = ""
          THEN [fundAccounts EXCEPT ![sender].dailySpendingLimit = dailyLimit,
                                    ![sender].perTransactionLimit = perTransactionLimit,
                                    ![sender].todaySpent = 0]
          ELSE fundAccounts
     /\ last' = Call("setLimits", sender, sender, Null, dailyLimit,
                     perTransactionLimit, err, 0, <<>>, fundAccounts[sender])
     /\ UNCHANGED <<purchases, fundPurchaseIndices, platformFeeBps, treasury, now,
                    tok, calls, ticks, frame>>

\* setLimits that writes the limits of every fund
setLimitsForAll(sender, dailyLimit, perTransactionLimit) ==
  LET err == SetLimitsError(dailyLimit, perTransactionLimit)
  IN /\ fundAccounts' = IF err = ""
          THEN [f \in Funds |->
                  [fundAccounts[f] EXCEPT !.dailySpendingLimit = dailyLimit,
                                          !.perTransactionLimit = perTransactionLimit]]
          ELSE fundAccounts
     /\ last' = Call("setLimits", sender, sender, Null, dailyLimit,
                     perTransactionLimit, err, 0, <<>>, fundAccounts[sender])
     /\ UNCHANGED <<purchases, fundPurchaseIndices, platformFeeBps, treasury, now,
                    tok, calls, ticks, frame>>

setLimits(sender, dailyLimit, perTransactionLimit) ==
  LET err == SetLimitsError(dailyLimit, perTransactionLimit)
  IN /\ fundAccounts' = IF err = ""
          THEN [fundAccounts EXCEPT ![sender].dailySpendingLimit = dailyLimit,
                                    ![sender].perTransactionLimit = perTransactionLimit]
          ELSE fundAccounts
     /\ last' = Call("setLimits", sender, sender, Null, dailyLimit,
                     perTransactionLimit, err, 0, <<>>, fundAccounts[sender])
     /\ UNCHANGED <<purchases, fundPurchaseIndices, platformFeeBps, treasury, now,
                    tok, calls, ticks, frame>>

\* ------------------------------------------------------------------ purchase
\* _resetDailyLimitIfNeeded that never resets
resetNever(account, timestamp) == account

\* _resetDailyLimitIfNeeded
\* _resetDailyLimitIfNeeded that forgets to note the day
resetKeepsDay(account, timestamp) ==
  LET currentDay == timestamp \div DAY
  IN IF currentDay > account.lastResetDay
       THEN [account EXCEPT !.todaySpent = 0]
       ELSE account

\* _resetDailyLimitIfNeeded that lets the authorizations run out with the day
resetExpiresBots(account, timestamp) ==
  LET currentDay == timestamp \div DAY
  IN IF currentDay > account.lastResetDay
       THEN [account EXCEPT !.todaySpent = 0, !.lastResetDay = currentDay,
                            !.authorizedBots = {}]
       ELSE account

resetDailyLimitIfNeeded(account, timestamp) ==
  LET currentDay == timestamp \div DAY
  IN IF currentDay > account.lastResetDay
       THEN [account EXCEPT !.todaySpent = 0, !.lastResetDay = currentDay]
       ELSE account

\* the fee rounded to the nearest unit instead of truncated
PlatformFeeNearest(amount, feeBps) ==
  MulDiv(amount, feeBps, BPS_DIVISOR)
    + (IF 2 * (((amount % BPS_DIVISOR) * feeBps) % BPS_DIVISOR) >= BPS_DIVISOR THEN 1 ELSE 0)

\* the fee taken in units of a dollar's ten-thousandth instead of token units
PlatformFeeCoarse(amount, feeBps) ==
  MulDiv(amount, feeBps, BPS_DIVISOR) \div 1000

\* uint256 fee = (amount * platformFeeBps) / BPS_DIVISOR
PlatformFee(amount, feeBps) == MulDiv(amount, feeBps, BPS_DIVISOR)

\* PerTransactionOk with a strict comparison
PerTransactionOkStrict(account, amount) ==
  account.perTransactionLimit > 0 => amount < account.perTransactionLimit

\* if (perTransactionLimit > 0) require(amount <= perTransactionLimit)
PerTransactionOk(account, amount) ==
  account.perTransactionLimit > 0 => amount <= account.perTransactionLimit

\* DailyOk that looks at the amount alone
DailyOkForgetsSpent(account, amount) ==
  account.dailySpendingLimit > 0 => amount <= account.dailySpendingLimit

\* DailyOk that takes a limit of 0 for a limit
DailyOkZeroCaps(account, amount) ==
  account.todaySpent + amount <= account.dailySpendingLimit

\* DailyOk with a strict comparison
DailyOkStrict(account, amount) ==
  account.dailySpendingLimit > 0 =>
    account.todaySpent + amount < account.dailySpendingLimit

\* if (dailySpendingLimit > 0) require(todaySpent + amount <= dailySpendingLimit)
DailyOk(account, amount) ==
  account.dailySpendingLimit > 0 =>
    account.todaySpent + amount <= account.dailySpendingLimit

\* BalanceOk that lets every amount through
BalanceOkAlways(account, totalAmount) == TRUE

\* require(account.balance >= totalAmount)
BalanceOk(account, totalAmount) == account.balance >= totalAmount

\* BotOk without the membership test
BotOkAnyone(account, sender) == TRUE

\* require(account.authorizedBots[msg.sender])
BotOk(account, sender) == sender \in account.authorizedBots

\* PurchaseError that asks the balance for the principal only
PurchaseErrorWithoutFee(account, sender, recipient, amount, fee, paid, feePaid) ==
  IF recipient = Null THEN "Invalid recipient"
  ELSE IF ~(amount > 0) THEN "Amount must be greater than 0"
  ELSE IF ~BotOk(account, sender) THEN "Bot not authorized"
  ELSE IF ~PerTransactionOk(account, amount) THEN "Exceeds per-transaction limit"
  ELSE IF ~DailyOk(account, amount) THEN "Exceeds daily limit"
  ELSE IF ~BalanceOk(account, amount) THEN "Insufficient balance"
  ELSE IF ~paid THEN "Transfer to recipient failed"
  ELSE IF ~feePaid THEN "Fee transfer failed"
  ELSE ""

\* PurchaseError that looks at the bot before the amount
PurchaseErrorBotFirst(account, sender, recipient, amount, fee, paid, feePaid) ==
  IF recipient = Null THEN "Invalid recipient"
  ELSE IF ~BotOk(account, sender) THEN "Bot not authorized"
  ELSE IF ~(amount > 0) THEN "Amount must be greater than 0"
  ELSE IF ~PerTransactionOk(account, amount) THEN "Exceeds per-transaction limit"
  ELSE IF ~DailyOk(account, amount) THEN "Exceeds daily limit"
  ELSE IF ~BalanceOk(account, amount + fee) THEN "Insufficient balance"
  ELSE IF ~paid THEN "Transfer to recipient failed"
  ELSE IF ~feePaid THEN "Fee transfer failed"
  ELSE ""

\* The first require of purchaseOnBehalf that fails, "" when none does.
\* account is the fund's account after _resetDailyLimitIfNeeded.
PurchaseError(account, sender, recipient, amount, fee, paid, feePaid) ==
  IF recipient = Null THEN "Invalid recipient"
  ELSE IF ~(amount > 0) THEN "Amount must be greater than 0"
  ELSE IF ~BotOk(account, sender) THEN "Bot not authorized"
  ELSE IF ~PerTransactionOk(account, amount) THEN "Exceeds per-transaction limit"
  ELSE IF ~DailyOk(account, amount) THEN "Exceeds daily limit"
  ELSE IF ~BalanceOk(account, amount + fee) THEN "Insufficient balance"
  ELSE IF ~paid THEN "Transfer to recipient failed"
  ELSE IF ~feePaid THEN "Fee transfer failed"
  ELSE ""

\* Spend without the fee: the balance pays the principal only
SpendPrincipalOnly(account, amount, totalAmount) ==
  [account EXCEPT !.balance = @ - amount, !.todaySpent = @ + amount]

\* Spend that counts the fee into todaySpent
SpendCountsFee(account, amount, totalAmount) ==
  [account EXCEPT !.balance = @ - totalAmount, !.todaySpent = @ + totalAmount]

\* account.balance -= totalAmount; account.todaySpent += amount
Spend(account, amount, totalAmount) ==
  [account EXCEPT !.balance = @ - totalAmount, !.todaySpent = @ + amount]

\* PurchaseTransfers of a call that asks again after a refusal
PurchaseTransfersRetry(err, paid, feePaid) ==
  IF err = "" THEN <<paid, feePaid>>
  ELSE IF err = "Fee transfer failed" THEN <<paid, feePaid, feePaid>>
  ELSE IF err = "Transfer to recipient failed" THEN <<paid, paid>>
  ELSE <<>>

\* The token's answers to the transfers the call got to request.
PurchaseTransfers(err, paid, feePaid) ==
  IF err = "" \/ err = "Fee transfer failed" THEN <<paid, feePaid>>
  ELSE IF err = "Transfer to recipient failed" THEN <<paid>>
  ELSE <<>>

\* The account as the checks of the call read it: as stored until the reset
\* has run, after the reset from then on.
PurchaseSeen(account, reset, err) ==
  IF err \in {"Invalid recipient", "Amount must be greater than 0", "Bot not authorized"}
    THEN account ELSE reset

\* The writes the call had made to the account when the require failed.
PurchaseWritten(account, reset, debited, err) ==
  IF err \in {"Invalid recipient", "Amount must be greater than 0", "Bot not authorized"}
    THEN account
  ELSE IF err \in {"Exceeds per-transaction limit", "Exceeds daily limit",
                   "Insufficient balance"}
    THEN reset
  ELSE debited

\* NextPurchaseId that counts from 1
NextPurchaseIdFromOne(ledger) == Len(ledger) + 1

\* purchaseId = purchases.length
NextPurchaseId(ledger) == Len(ledger)

\* Push that puts the newest purchase first
PushFirst(ledger, purchase) == <<purchase>> \o ledger

\* purchases.push(Purchase({...}))
Push(ledger, purchase) == Append(ledger, purchase)

\* PushIndex that puts the newest id first
PushIndexFirst(indices, fund, purchaseId) ==
  [indices EXCEPT ![fund] = <<purchaseId>> \o @]

\* fundPurchaseIndices[fund].push(purchaseId)
PushIndex(indices, fund, purchaseId) ==
  [indices EXCEPT ![fund] = Append(@, purchaseId)]

\* ------------------------------------------------------------------ the calls in steps
\* The guarded calls one step at a time, as the token sees them: up to the
\* transfer, and from the transfer's return on.  Between the two the token
\* has control, and every call of the vault made then is a call made from
\* inside the transfer.
Waiting(op, sender, fund, who, amount, fee, metadata, stage, seen) ==
  [op |-> op, sender |-> sender, fund |-> fund, who |-> who, amount |-> amount,
   fee |-> fee, metadata |-> metadata, stage |-> stage, seen |-> seen,
   feeTo |-> Null,
   before |-> Storage(fundAccounts, purchases, fundPurchaseIndices,
                      platformFeeBps, treasury, tok)]

\* the record of the waiting call when it returns
Returned(err, ret, transfers) ==
  [op |-> frame.op, sender |-> frame.sender, fund |-> frame.fund, who |-> frame.who,
   amount |-> frame.amount, arg2 |-> 0, err |-> err, ret |-> ret,
   transfers |-> transfers, inside |-> <<>>, seen |-> frame.seen,
   before |-> frame.before]

\* the waiting call reverts: every write since it began is discarded, those
\* of the calls made from inside the transfer included
RevertWaiting ==
  /\ fundAccounts' = frame.before.fundAccounts
  /\ purchases' = frame.before.purchases
  /\ fundPurchaseIndices' = frame.before.fundPurchaseIndices
  /\ platformFeeBps' = frame.before.platformFeeBps
  /\ treasury' = frame.before.treasury
  /\ tok' = frame.before.tok

\* deposit up to usdc.transferFrom: nothing is written before it
depositEnter(sender, amount) ==
  LET account == fundAccounts[sender]
  IN /\ nonReentrant(frame)
     /\ DepositError(amount, TRUE) = ""
     /\ frame' = Waiting("deposit", sender, sender, Null, amount, 0, "", 1, account)
     /\ UNCHANGED <<fundAccounts, purchases, fundPurchaseIndices, platformFeeBps,
                    treasury, now, tok, last, calls, ticks>>

\* deposit from the return of usdc.transferFrom
depositReturn(allowed) ==
  /\ frame.op = "deposit"
  /\ IF TokenMoves(allowed, frame.sender, frame.amount)
       THEN /\ tok' = TokenAfter(tok, frame.sender, Vault, frame.amount)
            /\ fundAccounts' = [fundAccounts EXCEPT ![frame.sender] =
                                  Credit(@, frame.amount)]
            /\ calls' = [calls EXCEPT ![frame.sender].deposited = @ + frame.amount]
            /\ last' = Returned("", Credit(fundAccounts[frame.sender], frame.amount).balance, <<TRUE>>)
            /\ UNCHANGED <<purchases, fundPurchaseIndices, platformFeeBps, treasury>>
       ELSE /\ RevertWaiting
            /\ last' = Returned("Transfer failed", 0, <<FALSE>>)
            /\ UNCHANGED calls
  /\ frame' = NoFrame
  /\ UNCHANGED <<now, ticks>>

\* withdraw up to usdc.transfer
withdrawEnter(sender, amount) ==
  LET account == fundAccounts[sender]
  IN /\ nonReentrant(frame)
     /\ WithdrawError(account, amount, TRUE) = ""
     /\ fundAccounts' = [fundAccounts EXCEPT ![sender] = Debit(account, amount)]
     /\ frame' = Waiting("withdraw", sender, sender, Null, amount, 0, "", 1, account)
     /\ UNCHANGED <<purchases, fundPurchaseIndices, platformFeeBps, treasury, now,
                    tok, last, calls, ticks>>

\* withdraw from the return of usdc.transfer
withdrawReturn(allowed) ==
  /\ frame.op = "withdraw"
  /\ IF TokenMoves(allowed, Vault, frame.amount)
       THEN /\ tok' = TokenAfter(tok, Vault, frame.sender, frame.amount)
            /\ calls' = [calls EXCEPT ![frame.sender].withdrawn = @ + frame.amount]
            /\ last' = Returned("", fundAccounts[frame.sender].balance, <<TRUE>>)
            /\ UNCHANGED <<fundAccounts, purchases, fundPurchaseIndices,
                           platformFeeBps, treasury>>
       ELSE /\ RevertWaiting
            /\ last' = Returned("Transfer failed", 0, <<FALSE>>)
            /\ UNCHANGED calls
  /\ frame' = NoFrame
  /\ UNCHANGED <<now, ticks>>

\* purchaseOnBehalf up to usdc.transfer(recipient, amount)
purchaseEnter(sender, fund, recipient, amount, metadata) ==
  LET account == fundAccounts[fund]
      reset == resetDailyLimitIfNeeded(account, now)
      fee == PlatformFee(amount, platformFeeBps)
  IN /\ nonReentrant(frame)
     /\ PurchaseError(reset, sender, recipient, amount, fee, TRUE, TRUE) = ""
     /\ fundAccounts' = [fundAccounts EXCEPT ![fund] = Spend(reset, amount, amount + fee)]
     /\ frame' = Waiting("purchaseOnBehalf", sender, fund, recipient, amount, fee,
                         metadata, 1, reset)
     /\ UNCHANGED <<purchases, fundPurchaseIndices, platformFeeBps, treasury, now,
                    tok, last, calls, ticks>>

\* purchaseOnBehalf from the return of usdc.transfer(recipient, amount) up to
\* usdc.transfer(treasury, fee): the treasury is read here, for the call
purchasePaid(allowed) ==
  /\ frame.op = "purchaseOnBehalf" /\ frame.stage = 1
  /\ IF TokenMoves(allowed, Vault, frame.amount)
       THEN /\ tok' = TokenAfter(tok, Vault, frame.who, frame.amount)
            /\ frame' = [frame EXCEPT !.stage = 2, !.feeTo = treasury]
            /\ UNCHANGED <<fundAccounts, purchases, fundPurchaseIndices,
                           platformFeeBps, treasury, last>>
       ELSE /\ RevertWaiting
            /\ last' = Returned("Transfer to recipient failed", 0, <<FALSE>>)
            /\ frame' = NoFrame
  /\ UNCHANGED <<now, calls, ticks>>

\* purchaseOnBehalf from the return of usdc.transfer(treasury, fee)
purchaseReturn(feeAllowed) ==
  /\ frame.op = "purchaseOnBehalf" /\ frame.stage = 2
  /\ IF TokenMoves(feeAllowed, Vault, frame.fee)
       THEN /\ tok' = TokenAfter(tok, Vault, frame.feeTo, frame.fee)
            /\ purchases' = Push(purchases,
                 [fund |-> frame.fund, bot |-> frame.sender, recipient |-> frame.who,
                  amount |-> frame.amount, fee |-> frame.fee, timestamp |-> now,
                  metadata |-> frame.metadata])
            /\ fundPurchaseIndices' =
                 PushIndex(fundPurchaseIndices, frame.fund, NextPurchaseId(purchases))
            /\ last' = Returned("", NextPurchaseId(purchases), <<TRUE, TRUE>>)
            /\ UNCHANGED <<fundAccounts, platformFeeBps, treasury>>
       ELSE /\ RevertWaiting
            /\ last' = Returned("Fee transfer failed", 0, <<TRUE, FALSE>>)
  /\ frame' = NoFrame
  /\ UNCHANGED <<now, calls, ticks>>

\* a call of a nonReentrant function made while a guarded call is waiting
reentered(op, sender, fund, who, amount) ==
  /\ ~nonReentrant(frame)
  /\ last' = Call(op, sender, fund, who, amount, 0,
                  "ReentrancyGuard: reentrant call", 0, <<>>, fundAccounts[fund])
  /\ UNCHANGED <<fundAccounts, purchases, fundPurchaseIndices, platformFeeBps,
                 treasury, now, tok, calls, ticks, frame>>

\* ------------------------------------------------------------------ owner
\* SetPlatformFeeError without the upper bound
SetPlatformFeeErrorUnbounded(sender, newFeeBps) ==
  IF sender # Owner THEN "Ownable: caller is not the owner" ELSE ""

SetPlatformFeeError(sender, newFeeBps) ==
  IF sender # Owner THEN "Ownable: caller is not the owner"
  ELSE IF ~(newFeeBps <= MAX_PLATFORM_FEE_BPS) THEN "Fee too high"
  ELSE ""

setPlatformFee(sender, newFeeBps) ==
  LET err == SetPlatformFeeError(sender, newFeeBps)
  IN /\ platformFeeBps' = IF err = "" THEN newFeeBps ELSE platformFeeBps
     /\ last' = Call("setPlatformFee", sender, Null, Null, newFeeBps, 0, err, 0, <<>>,
                     EmptyAccount)
     /\ UNCHANGED <<fundAccounts, purchases, fundPurchaseIndices, treasury, now,
                    tok, calls, ticks, frame>>

\* SetTreasuryError without onlyOwner
SetTreasuryErrorAnyone(sender, newTreasury) ==
  IF newTreasury = Null THEN "Invalid treasury address" ELSE ""

SetTreasuryError(sender, newTreasury) ==
  IF sender # Owner THEN "Ownable: caller is not the owner"
  ELSE IF newTreasury = Null THEN "Invalid treasury address"
  ELSE ""

setTreasury(sender, newTreasury) ==
  LET err == SetTreasuryError(sender, newTreasury)
  IN /\ treasury' = IF err = "" THEN newTreasury ELSE treasury
     /\ last' = Call("setTreasury", sender, Null, newTreasury, 0, 0, err, 0, <<>>,
                     EmptyAccount)
     /\ UNCHANGED <<fundAccounts, purchases, fundPurchaseIndices, platformFeeBps, now,
                    tok, calls, ticks, frame>>

\* ------------------------------------------------------------------ calls from inside a transfer
\* The token is foreign code.  While usdc.transfer or usdc.transferFrom runs
\* it may hand control to any address, and that address may call the vault
\* before the transfer returns.  deposit, withdraw and purchaseOnBehalf take
\* the calls made from inside each of their transfers as a script: a
\* sequence of calls [op, sender, fund, who, amount, arg2], run in order on
\* the storage as the outer call has left it when it requests the transfer.
Nested(op, sender, fund, who, amount, arg2) ==
  [op |-> op, sender |-> sender, fund |-> fund, who |-> who, amount |-> amount,
   arg2 |-> arg2]

\* the functions that carry nonReentrant
Guarded == {"deposit", "withdraw", "purchaseOnBehalf"}

\* the error of the call c made while a guarded call is in progress and the
\* storage is s: the guarded functions revert on entry, the others run their
\* own requires
NestedError(s, c) ==
  IF c.op \in Guarded THEN "ReentrancyGuard: reentrant call"
  ELSE IF c.op = "authorizeBot" THEN AuthorizeError(s.fundAccounts[c.sender], c.who)
  ELSE IF c.op = "revokeBot" THEN RevokeError(s.fundAccounts[c.sender], c.who)
  ELSE IF c.op = "setLimits" THEN SetLimitsError(c.amount, c.arg2)
  ELSE IF c.op = "setPlatformFee" THEN SetPlatformFeeError(c.sender, c.amount)
  ELSE SetTreasuryError(c.sender, c.who)

\* the storage after the call c, made while a guarded call is in progress
NestedStorage(s, c) ==
  IF NestedError(s, c) # "" THEN s
  ELSE IF c.op = "authorizeBot"
    THEN [s EXCEPT !.fundAccounts[c.sender].authorizedBots = @ \cup {c.who}]
  ELSE IF c.op = "revokeBot"
    THEN [s EXCEPT !.fundAccounts[c.sender].authorizedBots = @ \ {c.who}]
  ELSE IF c.op = "setLimits"
    THEN [s EXCEPT !.fundAccounts[c.sender].dailySpendingLimit = c.amount,
                   !.fundAccounts[c.sender].perTransactionLimit = c.arg2]
  ELSE IF c.op = "setPlatformFee" THEN [s EXCEPT !.platformFeeBps = c.amount]
  ELSE [s EXCEPT !.treasury = c.who]

RECURSIVE Inside(_, _)
\* the storage when the transfer returns, the calls of the script having run
Inside(s, script) ==
  IF script = <<>> THEN s
  ELSE Inside(NestedStorage(s, Head(script)), Tail(script))

\* the call c and its error, "" when it went through
NestedOutcome(s, c) ==
  [op |-> c.op, sender |-> c.sender, fund |-> c.fund, who |-> c.who,
   amount |-> c.amount, arg2 |-> c.arg2, err |-> NestedError(s, c)]

RECURSIVE InsideCalls(_, _)
\* the calls of the script with their outcomes, in order
InsideCalls(s, script) ==
  IF script = <<>> THEN <<>>
  ELSE <<NestedOutcome(s, Head(script))>>
         \o InsideCalls(NestedStorage(s, Head(script)), Tail(script))

\* The calls made from inside the transfers the purchase got to request.
PurchaseInside(err, called, feeCalled) ==
  IF err = "" \/ err = "Fee transfer failed" THEN <<called, feeCalled>>
  ELSE IF err = "Transfer to recipient failed" THEN <<called>>
  ELSE <<>>

\* ------------------------------------------------------------------ deposit
\* usdc.transferFrom is requested before any write (line 810); the balance
\* is credited when it has returned true (line 812).
deposit(sender, amount, allowed, script) ==
  LET account == fundAccounts[sender]
      moved == TokenMoves(allowed, sender, amount)
      err == DepositError(amount, moved)
      inside == Inside(Current, script)
      credited == Credit(inside.fundAccounts[sender], amount)
      written == IF amount > 0 THEN inside ELSE Current
  IN /\ nonReentrant(frame)
     /\ fundAccounts' = IF err = ""
          THEN [inside.fundAccounts EXCEPT ![sender] = credited]
          ELSE Revert(fundAccounts, written.fundAccounts)
     /\ platformFeeBps' = IF err = "" THEN inside.platformFeeBps
                          ELSE Revert(platformFeeBps, written.platformFeeBps)
     /\ treasury' = IF err = "" THEN inside.treasury
                    ELSE Revert(treasury, written.treasury)
     /\ tok' = IF err = "" THEN TokenAfter(tok, sender, Vault, amount) ELSE tok
     /\ last' = Outcome("deposit", sender, sender, Null, amount, 0, err,
                        IF err = "" THEN credited.balance ELSE 0,
                        IF amount > 0 THEN <<moved>> ELSE <<>>,
                        IF amount > 0 THEN <<InsideCalls(Current, script)>> ELSE <<>>,
                        account)
     /\ calls' = IF err = ""
                   THEN [calls EXCEPT ![sender].deposited = @ + amount]
                   ELSE calls
     /\ UNCHANGED <<purchases, fundPurchaseIndices, now, ticks, frame>>

\* ------------------------------------------------------------------ withdraw
\* account.balance -= amount (line 826) runs before usdc.transfer (line 829)
withdraw(sender, amount, allowed, script) ==
  LET account == fundAccounts[sender]
      moved == TokenMoves(allowed, Vault, amount)
      err == WithdrawError(account, amount, moved)
      requested == WithdrawError(account, amount, TRUE) = ""
      held == [Current EXCEPT !.fundAccounts[sender] = Debit(account, amount)]
      inside == Inside(held, script)
      written == IF requested THEN inside ELSE Current
  IN /\ nonReentrant(frame)
     /\ fundAccounts' = IF err = "" THEN inside.fundAccounts
                        ELSE Revert(fundAccounts, written.fundAccounts)
     /\ platformFeeBps' = IF err = "" THEN inside.platformFeeBps
                          ELSE Revert(platformFeeBps, written.platformFeeBps)
     /\ treasury' = IF err = "" THEN inside.treasury
                    ELSE Revert(treasury, written.treasury)
     /\ tok' = IF err = "" THEN TokenAfter(tok, Vault, sender, amount) ELSE tok
     /\ last' = Outcome("withdraw", sender, sender, Null, amount, 0, err,
                        IF err = "" THEN inside.fundAccounts[sender].balance ELSE 0,
                        IF requested THEN <<moved>> ELSE <<>>,
                        IF requested THEN <<InsideCalls(held, script)>> ELSE <<>>,
                        account)
     /\ calls' = IF err = ""
                   THEN [calls EXCEPT ![sender].withdrawn = @ + amount]
                   ELSE calls
     /\ UNCHANGED <<purchases, fundPurchaseIndices, now, ticks, frame>>

\* ------------------------------------------------------------------ purchaseOnBehalf
\* The account is written (lines 919-920) before usdc.transfer(recipient,
\* amount) (line 923) and usdc.transfer(treasury, fee) (line 924); the fee is
\* computed before the transfers (line 912) and the treasury is read when the
\* second transfer is requested; the Purchase is appended last.
\* TreasuryAtFeeTransfer that reads the treasury when the call returns
TreasuryAtReturn(first, second) == second.treasury

\* usdc.transfer(treasury, fee) (line 924) reads the treasury when the
\* transfer to the recipient has returned (storage first), not when its own
\* transfer has (storage second)
TreasuryAtFeeTransfer(first, second) == first.treasury

purchaseOnBehalf(sender, fund, recipient, amount, metadata, allowed, feeAllowed, script, feeScript) ==
  LET account == fundAccounts[fund]
      reset == resetDailyLimitIfNeeded(account, now)
      fee == PlatformFee(amount, platformFeeBps)
      totalAmount == amount + fee
      debited == Spend(reset, amount, totalAmount)
      held == [Current EXCEPT !.fundAccounts[fund] = debited]
      first == Inside(held, script)
      second == Inside(first, feeScript)
      feeTo == TreasuryAtFeeTransfer(first, second)
      paid == TokenMoves(allowed, Vault, amount)
      \* what the vault holds once the recipient is paid covers the fee
      feePaid == feeAllowed
                   /\ (IF recipient = Vault THEN tok[Vault] ELSE tok[Vault] - amount) >= fee
      err == PurchaseError(reset, sender, recipient, amount, fee, paid, feePaid)
      purchaseId == NextPurchaseId(purchases)
      purchase == [fund |-> fund, bot |-> sender, recipient |-> recipient,
                   amount |-> amount, fee |-> fee, timestamp |-> now,
                   metadata |-> metadata]
      reached == IF err = "Transfer to recipient failed" THEN first
                 ELSE IF err \in {"", "Fee transfer failed"} THEN second
                 ELSE Current
      written == [reached EXCEPT !.fundAccounts[fund] =
                                   PurchaseWritten(account, reset, @, err)]
  IN /\ nonReentrant(frame)
     /\ IF err = ""
          THEN /\ fundAccounts' = second.fundAccounts
               /\ platformFeeBps' = second.platformFeeBps
               /\ treasury' = second.treasury
               /\ tok' = TokenAfter(TokenAfter(tok, Vault, recipient, amount),
                                    Vault, feeTo, fee)
               /\ purchases' = Push(purchases, purchase)
               /\ fundPurchaseIndices' = PushIndex(fundPurchaseIndices, fund, purchaseId)
          ELSE /\ fundAccounts' = Revert(fundAccounts, written.fundAccounts)
               /\ platformFeeBps' = Revert(platformFeeBps, written.platformFeeBps)
               /\ treasury' = Revert(treasury, written.treasury)
               /\ UNCHANGED <<tok, purchases, fundPurchaseIndices>>
     /\ last' = Outcome("purchaseOnBehalf", sender, fund, recipient, amount, 0, err,
                        IF err = "" THEN purchaseId ELSE 0,
                        PurchaseTransfers(err, paid, feePaid),
                        PurchaseInside(err, InsideCalls(held, script),
                                       InsideCalls(first, feeScript)),
                        PurchaseSeen(account, reset, err))
     /\ UNCHANGED <<now, calls, ticks, frame>>

\* ------------------------------------------------------------------ the token
\* MockUSDC, the token of the tests.  Its owner is its deployer, the account
\* that deploys the vault too.
\* _mint(to, amount) of the inherited ERC20 reverts for the zero address
MintError(to) ==
  IF to = Null THEN "ERC20: mint to the zero address" ELSE ""

\* onlyOwner runs before the body and its _mint
OwnerMintError(sender, to) ==
  IF sender # Owner THEN "Ownable: caller is not the owner" ELSE MintError(to)

\* _mint(to, amount)
Minting(balances, to, amount) == [balances EXCEPT ![to] = @ + amount]

\* uint256 amount = dollarAmount * (10 ** DECIMALS)
DollarUnits(dollarAmount) == dollarAmount * (10 ^ DECIMALS)

RECURSIVE SumOver(_, _)
\* the sum of the balances of the holders hs
SumOver(balances, hs) ==
  IF hs = {} THEN 0
  ELSE LET h == CHOOSE x \in hs : TRUE
       IN balances[h] + SumOver(balances, hs \ {h})

\* the tokens in existence
totalSupply(balances) == SumOver(balances, DOMAIN balances)

\* a call of the token: the vault's storage is not touched
TokenCall(op, sender, to, amount, err, balances) ==
  /\ tok' = IF err = "" THEN balances ELSE tok
  /\ last' = Call(op, sender, Null, to, amount, 0, err, 0, <<>>, EmptyAccount)
  /\ UNCHANGED <<fundAccounts, purchases, fundPurchaseIndices, platformFeeBps,
                 treasury, now, calls, ticks, frame>>

\* function mint(address to, uint256 amount) external onlyOwner
mint(sender, to, amount) ==
  TokenCall("mint", sender, to, amount, OwnerMintError(sender, to),
            Minting(tok, to, amount))

\* function mintDollars(address to, uint256 dollarAmount) external onlyOwner
mintDollars(sender, to, dollarAmount) ==
  TokenCall("mintDollars", sender, to, dollarAmount, OwnerMintError(sender, to),
            Minting(tok, to, DollarUnits(dollarAmount)))

\* function publicMint(address to, uint256 amount) external
publicMint(sender, to, amount) ==
  TokenCall("publicMint", sender, to, amount, MintError(to),
            Minting(tok, to, amount))

\* function publicMintDollars(address to, uint256 dollarAmount) external
publicMintDollars(sender, to, dollarAmount) ==
  TokenCall("publicMintDollars", sender, to, dollarAmount, MintError(to),
            Minting(tok, to, DollarUnits(dollarAmount)))

\* the transfer MockUSDC inherits from ERC20: the sender's tokens go to
\* another holder, and the call reverts when the sender holds less
TransferError(sender, to, amount) ==
  IF to = Null THEN "ERC20: transfer to the zero address"
  ELSE IF ~(tok[sender] >= amount) THEN "ERC20: transfer amount exceeds balance"
  ELSE ""

transfer(sender, to, amount) ==
  TokenCall("transfer", sender, to, amount, TransferError(sender, to, amount),
            TokenAfter(tok, sender, to, amount))

\* ------------------------------------------------------------------ views
\* getTotalPurchases, on a ledger
getTotalPurchases(ledger) == Len(ledger)

\* getFundAccount that reports the counters as of the current day
getFundAccountAsOfToday(accounts, fund) ==
  LET account == resetDailyLimitIfNeeded(accounts[fund], now)
  IN <<account.balance, account.dailySpendingLimit, account.perTransactionLimit,
       account.todaySpent, account.lastResetDay>>

\* returns (balance, dailySpendingLimit, perTransactionLimit, todaySpent,
\* lastResetDay) as stored
getFundAccount(accounts, fund) ==
  LET account == accounts[fund]
  IN <<account.balance, account.dailySpendingLimit, account.perTransactionLimit,
       account.todaySpent, account.lastResetDay>>

\* getPurchase, on a ledger
\* GetPurchaseError that accepts the count itself
GetPurchaseErrorInclusive(ledger, purchaseId) ==
  IF ~(purchaseId <= Len(ledger)) THEN "Invalid purchase ID" ELSE ""

\* require(purchaseId < purchases.length, "Invalid purchase ID")
GetPurchaseError(ledger, purchaseId) ==
  IF ~(purchaseId < Len(ledger)) THEN "Invalid purchase ID" ELSE ""

getPurchase(ledger, purchaseId) ==
  IF GetPurchaseError(ledger, purchaseId) # "" THEN GetPurchaseError(ledger, purchaseId)
  ELSE ledger[purchaseId + 1]

\* getFundPurchases, on an index
getFundPurchases(indices, fund) == indices[fund]

\* ------------------------------------------------------------------ clock
\* block.timestamp moves on between two calls
Tick(step) ==
  /\ now' = now + step
  /\ ticks' = ticks + 1
  /\ UNCHANGED <<fundAccounts, purchases, fundPurchaseIndices, platformFeeBps,
                 treasury, tok, last, calls, frame>>

\* ------------------------------------------------------------------ Next
\* the token returns without calling anyone
NoScripts == {<<>>}

\* The callers and arguments of one specification.  in.funds call deposit,
\* withdraw, authorizeBot, revokeBot and setLimits and are named in
\* purchaseOnBehalf; in.bots call purchaseOnBehalf; in.admins call the
\* owner's functions; in.allowed and in.transfers are the token's answers.
\* in.scripts are the scripts of calls made from inside the transfer of a
\* deposit or a withdrawal, in.purchaseScripts and in.feeScripts those made
\* from inside a purchase's transfer to the recipient and to the treasury.
\* A run is cut where a call would pass in.maxDeposited, in.maxPurchases or
\* in.maxTicks; calls that fail are never cut.
Deposit(in) ==
  \E f \in in.funds, a \in in.depositAmounts, allowed \in in.allowed,
     script \in in.scripts :
    /\ deposit(f, a, allowed, script)
    /\ calls'[f].deposited <= in.maxDeposited

Withdraw(in) ==
  \E f \in in.funds, a \in in.withdrawAmounts, allowed \in in.allowed,
     script \in in.scripts :
    withdraw(f, a, allowed, script)

AuthorizeBot(in) == \E f \in in.funds, b \in in.authorized : authorizeBot(f, b)

RevokeBot(in) == \E f \in in.funds, b \in in.revoked : revokeBot(f, b)

SetLimits(in) == \E f \in in.funds, l \in in.limits : setLimits(f, l[1], l[2])

PurchaseOnBehalf(in) ==
  \E b \in in.bots, f \in in.funds, r \in in.recipients, a \in in.purchaseAmounts,
     m \in Metadata, t \in in.transfers, script \in in.purchaseScripts,
     feeScript \in in.feeScripts :
    /\ purchaseOnBehalf(b, f, r, a, m, t[1], t[2], script, feeScript)
    /\ Len(purchases') <= in.maxPurchases

SetPlatformFee(in) == \E s \in in.admins, bps \in in.fees : setPlatformFee(s, bps)

SetTreasury(in) == \E s \in in.admins, t \in in.treasuries : setTreasury(s, t)

Clock(in) ==
  \E step \in in.steps :
    /\ ticks < in.maxTicks
    /\ Tick(step)

\* The token's own functions.  in.minters call mint and mintDollars,
\* in.funds call publicMint, publicMintDollars and transfer; in.mintedTo
\* and in.sentTo receive.  A run is cut where the token's supply would pass
\* in.maxSupply tokens, or in.maxDollars dollars on top of them, and where
\* a holder would be sent more than in.maxSupply.
Mint(in) ==
  \E s \in in.minters, to \in in.mintedTo, a \in in.mintAmounts :
    /\ mint(s, to, a)
    /\ totalSupply(tok') <= in.maxSupply

MintDollars(in) ==
  \E s \in in.minters, to \in in.mintedTo, d \in in.mintDollars :
    /\ mintDollars(s, to, d)
    /\ totalSupply(tok') <= in.maxSupply + DollarUnits(in.maxDollars)

PublicMint(in) ==
  \E s \in in.funds, to \in in.mintedTo, a \in in.mintAmounts :
    /\ publicMint(s, to, a)
    /\ totalSupply(tok') <= in.maxSupply

PublicMintDollars(in) ==
  \E s \in in.funds, to \in in.mintedTo, d \in in.mintDollars :
    /\ publicMintDollars(s, to, d)
    /\ totalSupply(tok') <= in.maxSupply + DollarUnits(in.maxDollars)

Transfer(in) ==
  \E s \in in.funds, to \in in.sentTo, a \in in.mintAmounts :
    /\ transfer(s, to, a)
    /\ tok'[to] <= in.maxSupply

\* the token's answers to the two transfers of a purchase
Transfers == {<<TRUE, TRUE>>, <<FALSE, TRUE>>, <<TRUE, FALSE>>}

\* The general run: every function, with a refused and an accepted input each.
\* From inside the transfer of a deposit or a withdrawal the fund tries to
\* withdraw and to deposit.
Inputs ==
  [funds |-> {"fund1"},
   scripts |-> {<<>>,
                <<Nested("withdraw", "fund1", "fund1", Null, 102, 0),
                  Nested("deposit", "fund1", "fund1", Null, 306, 0)>>},
   purchaseScripts |-> NoScripts,
   feeScripts |-> NoScripts,
   depositAmounts |-> {306},
   withdrawAmounts |-> {102},
   authorized |-> {"bot1"},
   revoked |-> {"bot1"},
   limits |-> {<<100, 100>>, <<100, 200>>},
   bots |-> {"bot1", "bot2"},
   recipients |-> {"recipient", Null},
   purchaseAmounts |-> {0, 100, 101},
   allowed |-> BOOLEAN,
   transfers |-> Transfers,
   admins |-> {Owner},
   fees |-> {1000, 1001},
   treasuries |-> {"treasury2", Null},
   steps |-> {DAY},
   maxDeposited |-> MaxDeposited,
   maxPurchases |-> MaxPurchases,
   maxTicks |-> MaxTicks]

Next ==
  \/ Deposit(Inputs)
  \/ Withdraw(Inputs)
  \/ AuthorizeBot(Inputs)
  \/ RevokeBot(Inputs)
  \/ SetLimits(Inputs)
  \/ PurchaseOnBehalf(Inputs)
  \/ SetPlatformFee(Inputs)
  \/ SetTreasury(Inputs)
  \/ Clock(Inputs)

Spec == Init /\ [][Next]_vars

\* From inside a transfer of a purchase the bot tries to buy again and the
\* fund to withdraw.
RetryScripts ==
  {<<>>,
   <<Nested("purchaseOnBehalf", "bot1", "fund1", "recipient", 1, 0),
     Nested("withdraw", "fund1", "fund1", Null, 1, 0)>>}

\* The scenario runs: one fund deposits 1000 dollars, authorizes a bot and
\* sets limits; the bot buys for 150 dollars at a time over two days.
ScenarioInputs ==
  [funds |-> {"fund1"},
   scripts |-> NoScripts,
   purchaseScripts |-> RetryScripts,
   feeScripts |-> NoScripts,
   depositAmounts |-> {1000 * Dollar},
   authorized |-> {"bot1"},
   limits |-> {<<500 * Dollar, 150 * Dollar>>, <<300 * Dollar, 150 * Dollar>>},
   bots |-> {"bot1"},
   recipients |-> {"recipient"},
   purchaseAmounts |-> {150 * Dollar},
   allowed |-> BOOLEAN,
   transfers |-> Transfers,
   steps |-> {HalfDay},
   maxDeposited |-> 1000 * Dollar,
   maxPurchases |-> ScenarioPurchases,
   maxTicks |-> ScenarioTicks]

InitScenario == InitWith(1000 * Dollar)

NextScenario ==
  \/ Deposit(ScenarioInputs)
  \/ AuthorizeBot(ScenarioInputs)
  \/ SetLimits(ScenarioInputs)
  \/ PurchaseOnBehalf(ScenarioInputs)
  \/ Clock(ScenarioInputs)

SpecScenario == InitScenario /\ [][NextScenario]_vars

\* The fee runs: the owner sets the fee rate, one fund deposits 40 dollars
\* and authorizes a bot, and the bot buys for amounts around the rounding
\* boundaries of the fee.
FeeRates == {0, 1, 200, 999, 1000}

FeeAmounts == {1, 49, 50, 99, 9999, 10001, 1234567, 33330000}

\* From inside the transfer to the recipient the owner sets the highest rate
\* and another treasury.
FeeInputs ==
  [funds |-> {"fund1"},
   scripts |-> NoScripts,
   purchaseScripts |-> {<<>>,
                        <<Nested("setPlatformFee", Owner, Null, Null, 1000, 0),
                          Nested("setTreasury", Owner, Null, "treasury2", 0, 0)>>},
   feeScripts |-> NoScripts,
   depositAmounts |-> {40 * Dollar},
   authorized |-> {"bot1"},
   bots |-> {"bot1"},
   recipients |-> {"recipient"},
   purchaseAmounts |-> FeeAmounts,
   allowed |-> {TRUE},
   transfers |-> {<<TRUE, TRUE>>},
   admins |-> {Owner},
   fees |-> FeeRates,
   maxDeposited |-> 40 * Dollar,
   maxPurchases |-> FeePurchases]

InitFee == InitWith(40 * Dollar)

NextFee ==
  \/ SetPlatformFee(FeeInputs)
  \/ Deposit(FeeInputs)
  \/ AuthorizeBot(FeeInputs)
  \/ PurchaseOnBehalf(FeeInputs)

SpecFee == InitFee /\ [][NextFee]_vars

\* The two-fund runs: both funds deposit, withdraw, authorize and revoke the
\* same bot and set limits; the bot buys for either fund.
\* From inside the transfer of either fund's deposit or withdrawal fund2
\* tries to withdraw and authorizes the bot.
FundsInputs ==
  [funds |-> Funds,
   scripts |-> {<<>>,
                <<Nested("withdraw", "fund2", "fund2", Null, 150, 0),
                  Nested("authorizeBot", "fund2", "fund2", "bot1", 0, 0)>>},
   purchaseScripts |-> NoScripts,
   feeScripts |-> NoScripts,
   depositAmounts |-> {250},
   withdrawAmounts |-> {150},
   authorized |-> {"bot1"},
   revoked |-> {"bot1"},
   limits |-> {<<100, 100>>},
   bots |-> {"bot1"},
   recipients |-> {"recipient"},
   purchaseAmounts |-> {100},
   allowed |-> BOOLEAN,
   transfers |-> Transfers,
   steps |-> {DAY},
   maxDeposited |-> 250,
   maxPurchases |-> FundsPurchases,
   maxTicks |-> FundsTicks]

InitFunds == InitWith(250)

NextFunds ==
  \/ Deposit(FundsInputs)
  \/ Withdraw(FundsInputs)
  \/ AuthorizeBot(FundsInputs)
  \/ RevokeBot(FundsInputs)
  \/ SetLimits(FundsInputs)
  \/ PurchaseOnBehalf(FundsInputs)
  \/ Clock(FundsInputs)

SpecFunds == InitFunds /\ [][NextFunds]_vars

\* The limit runs: one fund with money and a bot sets limits of every
\* shape (none, per-transaction only, equal, ordered, misordered) and the bot
\* buys below, at and above them, on two days.
\* From inside the transfer to the recipient the fund halves its limits.
LimitsInputs ==
  [funds |-> {"fund1"},
   scripts |-> NoScripts,
   purchaseScripts |-> {<<>>,
                        <<Nested("setLimits", "fund1", "fund1", Null, 50, 50)>>},
   feeScripts |-> NoScripts,
   depositAmounts |-> {250},
   authorized |-> {"bot1"},
   limits |-> {<<0, 0>>, <<0, 50>>, <<100, 0>>, <<100, 100>>, <<100, 101>>, <<100, 50>>},
   bots |-> {"bot1"},
   recipients |-> {"recipient"},
   purchaseAmounts |-> {50, 51, 100},
   allowed |-> {TRUE},
   transfers |-> {<<TRUE, TRUE>>},
   steps |-> {DAY},
   maxDeposited |-> 250,
   maxPurchases |-> LimitsPurchases,
   maxTicks |-> LimitsTicks]

InitLimits == InitWith(250)

NextLimits ==
  \/ Deposit(LimitsInputs)
  \/ AuthorizeBot(LimitsInputs)
  \/ SetLimits(LimitsInputs)
  \/ PurchaseOnBehalf(LimitsInputs)
  \/ Clock(LimitsInputs)

SpecLimits == InitLimits /\ [][NextLimits]_vars

\* The ledger runs: one fund deposits, authorizes and revokes a bot and sets
\* limits, the bot buys, with and without the token's consent, and the owner
\* changes the fee and the treasury in between.
\* From inside either transfer of a purchase the bot tries to buy again.
LedgerInputs ==
  [funds |-> {"fund1"},
   scripts |-> NoScripts,
   purchaseScripts |-> {<<>>,
                        <<Nested("purchaseOnBehalf", "bot1", "fund1", "recipient", 100, 0)>>},
   feeScripts |-> {<<>>,
                   <<Nested("purchaseOnBehalf", "bot1", "fund1", "recipient", 100, 0)>>},
   depositAmounts |-> {350},
   authorized |-> {"bot1"},
   revoked |-> {"bot1"},
   limits |-> {<<100, 100>>},
   bots |-> {"bot1"},
   recipients |-> {"recipient"},
   purchaseAmounts |-> {100},
   allowed |-> {TRUE},
   transfers |-> Transfers,
   admins |-> {Owner},
   fees |-> {0},
   treasuries |-> {"treasury2"},
   maxDeposited |-> 350,
   maxPurchases |-> LedgerPurchases]

InitLedger == InitWith(350)

NextLedger ==
  \/ Deposit(LedgerInputs)
  \/ AuthorizeBot(LedgerInputs)
  \/ RevokeBot(LedgerInputs)
  \/ SetLimits(LedgerInputs)
  \/ PurchaseOnBehalf(LedgerInputs)
  \/ SetPlatformFee(LedgerInputs)
  \/ SetTreasury(LedgerInputs)

SpecLedger == InitLedger /\ [][NextLedger]_vars

\* The custody runs: both funds deposit and withdraw, and the bot pays any
\* address that is not null, the vault's own address included.  The token
\* is minted to fund1, and tokens are sent to fund2: tokens reach and leave
\* the vault through its own transfers only.
\* From inside the transfer of a deposit or a withdrawal fund1 tries to
\* withdraw.
CustodyInputs ==
  [funds |-> Funds,
   scripts |-> {<<>>,
                <<Nested("withdraw", "fund1", "fund1", Null, 150, 0)>>},
   purchaseScripts |-> NoScripts,
   feeScripts |-> NoScripts,
   minters |-> {Owner, "fund1"},
   mintedTo |-> {"fund1", Null},
   sentTo |-> {"fund2"},
   mintAmounts |-> {100},
   mintDollars |-> {1},
   maxSupply |-> CustodySupply,
   maxDollars |-> CustodyDollars,
   depositAmounts |-> {250},
   withdrawAmounts |-> {150},
   authorized |-> {"bot1"},
   bots |-> {"bot1"},
   recipients |-> {"recipient", Vault},
   purchaseAmounts |-> {100},
   allowed |-> BOOLEAN,
   transfers |-> Transfers,
   maxDeposited |-> 250,
   maxPurchases |-> CustodyPurchases]

InitCustody == InitWith(250)

NextCustody ==
  \/ Deposit(CustodyInputs)
  \/ Withdraw(CustodyInputs)
  \/ AuthorizeBot(CustodyInputs)
  \/ PurchaseOnBehalf(CustodyInputs)
  \/ Mint(CustodyInputs)
  \/ MintDollars(CustodyInputs)
  \/ PublicMint(CustodyInputs)
  \/ PublicMintDollars(CustodyInputs)
  \/ Transfer(CustodyInputs)

SpecCustody == InitCustody /\ [][NextCustody]_vars

\* The re-entrant runs: the token hands control to the fund and to the bot
\* while a deposit, a withdrawal or a purchase waits for it, and they call
\* the vault.
DepositEnter(in) ==
  \E f \in in.funds, a \in in.depositAmounts :
    /\ depositEnter(f, a)
    /\ calls[f].deposited + a <= in.maxDeposited

DepositReturn(in) == \E allowed \in in.allowed : depositReturn(allowed)

WithdrawEnter(in) ==
  \E f \in in.funds, a \in in.withdrawAmounts : withdrawEnter(f, a)

WithdrawReturn(in) == \E allowed \in in.allowed : withdrawReturn(allowed)

PurchaseEnter(in) ==
  \E b \in in.bots, f \in in.funds, r \in in.recipients, a \in in.purchaseAmounts,
     m \in Metadata :
    purchaseEnter(b, f, r, a, m)

PurchasePaid(in) == \E allowed \in in.allowed : purchasePaid(allowed)

PurchaseReturn(in) ==
  \E allowed \in in.allowed :
    /\ purchaseReturn(allowed)
    /\ Len(purchases') <= in.maxPurchases

Reentered(in) ==
  \/ \E f \in in.funds, a \in in.depositAmounts : reentered("deposit", f, f, Null, a)
  \/ \E f \in in.funds, a \in in.withdrawAmounts : reentered("withdraw", f, f, Null, a)
  \/ \E b \in in.bots, f \in in.funds, r \in in.recipients, a \in in.purchaseAmounts :
       reentered("purchaseOnBehalf", b, f, r, a)

ReentrantInputs ==
  [funds |-> {"fund1"},
   scripts |-> NoScripts,
   purchaseScripts |-> NoScripts,
   feeScripts |-> NoScripts,
   depositAmounts |-> {250},
   withdrawAmounts |-> {100},
   authorized |-> {"bot1"},
   revoked |-> {"bot1"},
   limits |-> {<<100, 100>>, <<0, 0>>},
   bots |-> {"bot1"},
   recipients |-> {"recipient"},
   purchaseAmounts |-> {100},
   allowed |-> BOOLEAN,
   transfers |-> Transfers,
   maxDeposited |-> 250,
   maxPurchases |-> ReentrantPurchases]

InitReentrant == InitWith(250)

NextReentrant ==
  \/ Deposit(ReentrantInputs)
  \/ Withdraw(ReentrantInputs)
  \/ AuthorizeBot(ReentrantInputs)
  \/ RevokeBot(ReentrantInputs)
  \/ SetLimits(ReentrantInputs)
  \/ PurchaseOnBehalf(ReentrantInputs)
  \/ DepositEnter(ReentrantInputs)
  \/ DepositReturn(ReentrantInputs)
  \/ WithdrawEnter(ReentrantInputs)
  \/ WithdrawReturn(ReentrantInputs)
  \/ PurchaseEnter(ReentrantInputs)
  \/ PurchasePaid(ReentrantInputs)
  \/ PurchaseReturn(ReentrantInputs)
  \/ Reentered(ReentrantInputs)

SpecReentrant == InitReentrant /\ [][NextReentrant]_vars

\* A call runs on when the token's transfer returns: the steps that take a
\* waiting call further are not put off for ever.
SpecReentrantFair ==
  /\ SpecReentrant
  /\ WF_vars(DepositReturn(ReentrantInputs))
  /\ WF_vars(WithdrawReturn(ReentrantInputs))
  /\ WF_vars(PurchasePaid(ReentrantInputs))
  /\ WF_vars(PurchaseReturn(ReentrantInputs))

\* The guard runs: the vault is constructed with any treasury the
\* constructor accepts; one fund deposits and withdraws zero, covered and
\* uncovered amounts, authorizes and revokes two bots and the null address;
\* the owner, the fund and a bot call the owner's functions.
\* From inside the transfer of a deposit or a withdrawal the fund
\* authorizes a second bot, or tries to withdraw and to deposit, or the
\* owner names a treasury.
GuardsInputs ==
  [funds |-> {"fund1"},
   scripts |-> {<<>>,
                <<Nested("authorizeBot", "fund1", "fund1", "bot2", 0, 0)>>,
                <<Nested("withdraw", "fund1", "fund1", Null, 100, 0),
                  Nested("deposit", "fund1", "fund1", Null, 100, 0)>>,
                <<Nested("setTreasury", Owner, Null, Null, 0, 0)>>,
                <<Nested("setTreasury", Owner, Null, "treasury2", 0, 0)>>},
   purchaseScripts |-> NoScripts,
   feeScripts |-> NoScripts,
   depositAmounts |-> {0, 100},
   withdrawAmounts |-> {0, 100, 150},
   authorized |-> {"bot1", "bot2", Null},
   revoked |-> {"bot1", "bot2"},
   allowed |-> BOOLEAN,
   admins |-> {Owner, "fund1", "bot1"},
   fees |-> {0, 1001},
   treasuries |-> {"treasury2", Null},
   maxDeposited |-> GuardsDeposited]

InitGuards ==
  \E treasuryAddress \in Treasuries \cup {Null} :
    Constructed(GuardsDeposited, "usdc", treasuryAddress)

NextGuards ==
  \/ Deposit(GuardsInputs)
  \/ Withdraw(GuardsInputs)
  \/ AuthorizeBot(GuardsInputs)
  \/ RevokeBot(GuardsInputs)
  \/ SetPlatformFee(GuardsInputs)
  \/ SetTreasury(GuardsInputs)

SpecGuards == InitGuards /\ [][NextGuards]_vars

\* The spending runs: one fund with 250 and a daily limit of 100 or none,
\* a bot buying for 50 at the rates 0, 200 and 1000 the owner sets, over
\* two days.
SpendInputs ==
  [funds |-> {"fund1"},
   scripts |-> NoScripts,
   purchaseScripts |-> NoScripts,
   feeScripts |-> RetryScripts,
   depositAmounts |-> {250},
   authorized |-> {"bot1"},
   limits |-> {<<100, 50>>},
   bots |-> {"bot1"},
   recipients |-> {"recipient"},
   purchaseAmounts |-> {50},
   allowed |-> {TRUE},
   transfers |-> {<<TRUE, TRUE>>},
   steps |-> {DAY},
   admins |-> {Owner},
   fees |-> {0, 1000},
   maxDeposited |-> 250,
   maxPurchases |-> SpendPurchases,
   maxTicks |-> SpendTicks]

InitSpend == InitWith(250)

NextSpend ==
  \/ Deposit(SpendInputs)
  \/ AuthorizeBot(SpendInputs)
  \/ SetLimits(SpendInputs)
  \/ PurchaseOnBehalf(SpendInputs)
  \/ SetPlatformFee(SpendInputs)
  \/ Clock(SpendInputs)

SpecSpend == InitSpend /\ [][NextSpend]_vars

\* The in-flight runs: one fund with 350, a bot buying for 100 twice, and
\* the owner setting the fee rate and the treasury.  setPlatformFee and
\* setTreasury carry no nonReentrant, so the owner's calls arrive between
\* purchases, from inside the transfer to the recipient and from inside the
\* transfer of the fee.
InFlightInputs ==
  [funds |-> {"fund1"},
   scripts |-> NoScripts,
   purchaseScripts |-> {<<>>,
                        <<Nested("setTreasury", Owner, Null, "treasury2", 0, 0),
                          Nested("setPlatformFee", Owner, Null, Null, 1000, 0)>>},
   feeScripts |-> {<<>>,
                   <<Nested("setTreasury", Owner, Null, "treasury2", 0, 0)>>,
                   <<Nested("setTreasury", Owner, Null, "treasury", 0, 0),
                     Nested("setPlatformFee", Owner, Null, Null, 0, 0)>>},
   depositAmounts |-> {350},
   authorized |-> {"bot1"},
   bots |-> {"bot1"},
   recipients |-> {"recipient"},
   purchaseAmounts |-> {100},
   allowed |-> BOOLEAN,
   transfers |-> Transfers,
   admins |-> {Owner},
   fees |-> {0, 1000},
   treasuries |-> Treasuries,
   maxDeposited |-> 350,
   maxPurchases |-> InFlightPurchases]

InitInFlight == InitWith(350)

NextInFlight ==
  \/ Deposit(InFlightInputs)
  \/ AuthorizeBot(InFlightInputs)
  \/ PurchaseOnBehalf(InFlightInputs)
  \/ SetPlatformFee(InFlightInputs)
  \/ SetTreasury(InFlightInputs)

SpecInFlight == InitInFlight /\ [][NextInFlight]_vars

\* The sum runs: each of two funds deposits 150 twice, withdraws 90 at a
\* time, and a bot buys for 50 for either fund, up to three times, at the
\* rates 200 and 1000; the token refuses some transfers, and from inside
\* the transfer of a deposit or a withdrawal fund1 tries to withdraw and
\* fund2 to deposit.
SumsInputs ==
  [funds |-> Funds,
   scripts |-> {<<>>,
                <<Nested("withdraw", "fund1", "fund1", Null, 90, 0),
                  Nested("deposit", "fund2", "fund2", Null, 150, 0)>>},
   purchaseScripts |-> NoScripts,
   feeScripts |-> NoScripts,
   depositAmounts |-> {150},
   withdrawAmounts |-> {90},
   authorized |-> {"bot1"},
   bots |-> {"bot1"},
   recipients |-> {"recipient"},
   purchaseAmounts |-> {50},
   allowed |-> BOOLEAN,
   transfers |-> Transfers,
   admins |-> {Owner},
   fees |-> {1000},
   maxDeposited |-> SumsDeposited,
   maxPurchases |-> SumsPurchases]

InitSums == InitWith(SumsDeposited)

NextSums ==
  \/ Deposit(SumsInputs)
  \/ Withdraw(SumsInputs)
  \/ AuthorizeBot(SumsInputs)
  \/ PurchaseOnBehalf(SumsInputs)
  \/ SetPlatformFee(SumsInputs)

SpecSums == InitSums /\ [][NextSums]_vars

\* The bucket runs: one fund with 250 and both limits at 100, a bot buying
\* for 100, and a clock that moves by half days from the start of a day.
BucketInputs ==
  [funds |-> {"fund1"},
   scripts |-> NoScripts,
   purchaseScripts |-> RetryScripts,
   feeScripts |-> NoScripts,
   depositAmounts |-> {250},
   authorized |-> {"bot1"},
   limits |-> {<<100, 100>>},
   bots |-> {"bot1"},
   recipients |-> {"recipient"},
   purchaseAmounts |-> {100},
   allowed |-> {TRUE},
   transfers |-> {<<TRUE, TRUE>>},
   steps |-> {HalfDay},
   maxDeposited |-> 250,
   maxPurchases |-> BucketPurchases,
   maxTicks |-> BucketTicks]

InitBucket == InitWith(250)

NextBucket ==
  \/ Deposit(BucketInputs)
  \/ AuthorizeBot(BucketInputs)
  \/ SetLimits(BucketInputs)
  \/ PurchaseOnBehalf(BucketInputs)
  \/ Clock(BucketInputs)

SpecBucket == InitBucket /\ [][NextBucket]_vars

\* The tenure runs: one fund authorizes and revokes a bot over several days
\* while it deposits, sets limits, and the bot and a stranger try to buy.
\* From inside the transfer of a deposit the fund authorizes the bot, and
\* from inside the transfer to the recipient it revokes it.
TenureInputs ==
  [funds |-> {"fund1"},
   scripts |-> {<<>>,
                <<Nested("authorizeBot", "fund1", "fund1", "bot1", 0, 0)>>},
   purchaseScripts |-> {<<>>,
                        <<Nested("revokeBot", "fund1", "fund1", "bot1", 0, 0)>>},
   feeScripts |-> NoScripts,
   depositAmounts |-> {250},
   authorized |-> {"bot1"},
   revoked |-> {"bot1"},
   limits |-> {<<100, 100>>},
   bots |-> {"bot1", "bot2"},
   recipients |-> {"recipient"},
   purchaseAmounts |-> {100},
   allowed |-> {TRUE},
   transfers |-> {<<TRUE, TRUE>>},
   steps |-> {DAY},
   maxDeposited |-> 250,
   maxPurchases |-> TenurePurchases,
   maxTicks |-> TenureTicks]

InitTenure == InitWith(250)

NextTenure ==
  \/ Deposit(TenureInputs)
  \/ AuthorizeBot(TenureInputs)
  \/ RevokeBot(TenureInputs)
  \/ SetLimits(TenureInputs)
  \/ PurchaseOnBehalf(TenureInputs)
  \/ Clock(TenureInputs)

SpecTenure == InitTenure /\ [][NextTenure]_vars

\* The frame runs: two funds deposit and withdraw, authorize and revoke a
\* bot and set limits, the bot buys for either fund, also with more than the
\* fund has, and the owner changes the rate and the treasury.
\* From inside the transfer of either fund's deposit or withdrawal fund2
\* authorizes the bot and tries to deposit.
FrameInputs ==
  [funds |-> Funds,
   scripts |-> {<<>>,
                <<Nested("authorizeBot", "fund2", "fund2", "bot1", 0, 0),
                  Nested("deposit", "fund2", "fund2", Null, 150, 0)>>},
   purchaseScripts |-> NoScripts,
   feeScripts |-> NoScripts,
   depositAmounts |-> {150},
   withdrawAmounts |-> {50, 200},
   authorized |-> {"bot1"},
   revoked |-> {"bot1"},
   limits |-> {<<100, 100>>},
   bots |-> {"bot1"},
   recipients |-> {"recipient"},
   purchaseAmounts |-> {100},
   allowed |-> BOOLEAN,
   transfers |-> Transfers,
   admins |-> {Owner},
   fees |-> {0},
   treasuries |-> {"treasury2"},
   maxDeposited |-> 150,
   maxPurchases |-> FramePurchases]

InitFrame == InitWith(150)

NextFrame ==
  \/ Deposit(FrameInputs)
  \/ Withdraw(FrameInputs)
  \/ AuthorizeBot(FrameInputs)
  \/ RevokeBot(FrameInputs)
  \/ SetLimits(FrameInputs)
  \/ PurchaseOnBehalf(FrameInputs)
  \/ SetPlatformFee(FrameInputs)
  \/ SetTreasury(FrameInputs)

SpecFrame == InitFrame /\ [][NextFrame]_vars

\* The nested runs: one fund deposits, withdraws, sets limits and authorizes
\* a bot, the bot buys, and the owner and the fund call the owner's
\* functions, between the calls and from inside the transfers.  From inside
\* the transfer of a deposit or a withdrawal the fund tries to name a
\* treasury and authorizes the bot, or tries to withdraw and to deposit; from
\* inside the transfer to the recipient the owner changes the treasury and
\* the rate, or the bot tries to buy and the fund revokes it; from inside
\* the transfer to the treasury the bot tries to buy and the fund lifts its
\* limits.
NestedInputs ==
  [funds |-> {"fund1"},
   scripts |-> {<<>>,
                <<Nested("setTreasury", "fund1", Null, "treasury2", 0, 0),
                  Nested("authorizeBot", "fund1", "fund1", "bot1", 0, 0)>>,
                <<Nested("withdraw", "fund1", "fund1", Null, 50, 0),
                  Nested("deposit", "fund1", "fund1", Null, 1, 0)>>},
   purchaseScripts |-> {<<>>,
                        <<Nested("setTreasury", Owner, Null, "treasury2", 0, 0),
                          Nested("setPlatformFee", Owner, Null, Null, 1000, 0)>>,
                        <<Nested("purchaseOnBehalf", "bot1", "fund1", "recipient", 50, 0),
                          Nested("revokeBot", "fund1", "fund1", "bot1", 0, 0)>>},
   feeScripts |-> {<<>>,
                   <<Nested("purchaseOnBehalf", "bot1", "fund1", "recipient", 50, 0),
                     Nested("setLimits", "fund1", "fund1", Null, 0, 0)>>},
   depositAmounts |-> {250},
   withdrawAmounts |-> {100},
   authorized |-> {"bot1"},
   limits |-> {<<100, 50>>, <<100, 100>>},
   bots |-> {"bot1"},
   recipients |-> {"recipient", Null},
   purchaseAmounts |-> {0, 100},
   allowed |-> BOOLEAN,
   transfers |-> Transfers,
   admins |-> {Owner, "fund1"},
   fees |-> {1000},
   treasuries |-> {"treasury2"},
   steps |-> {DAY},
   maxDeposited |-> 250,
   maxPurchases |-> NestedPurchases,
   maxTicks |-> NestedTicks]

InitNested == InitWith(250)

NextNested ==
  \/ Deposit(NestedInputs)
  \/ Withdraw(NestedInputs)
  \/ AuthorizeBot(NestedInputs)
  \/ SetLimits(NestedInputs)
  \/ PurchaseOnBehalf(NestedInputs)
  \/ SetPlatformFee(NestedInputs)
  \/ SetTreasury(NestedInputs)
  \/ Clock(NestedInputs)

SpecNested == InitNested /\ [][NextNested]_vars

\* ------------------------------------------------------------------ properties
RECURSIVE TotalCost(_)
\* the sum of amount + fee over the purchase ids of the sequence ids
TotalCost(ids) ==
  IF ids = <<>> THEN 0
  ELSE purchases[Head(ids) + 1].amount + purchases[Head(ids) + 1].fee
         + TotalCost(Tail(ids))

RECURSIVE IdsOf(_, _)
\* the ids of the purchases of fund f among purchases[1..n], oldest first
IdsOf(f, n) ==
  IF n = 0 THEN <<>>
  ELSE IF purchases[n].fund = f THEN Append(IdsOf(f, n - 1), n - 1)
  ELSE IdsOf(f, n - 1)

\* the calls made from inside the transfers of a call, in order
Flat(inside) ==
  IF Len(inside) = 0 THEN <<>>
  ELSE IF Len(inside) = 1 THEN inside[1]
  ELSE inside[1] \o inside[2]

\* from inside a transfer of call, sender called op naming who and the call
\* went through
CalledInside(call, op, sender, who) ==
  \E i \in 1..Len(Flat(call.inside)) :
    LET c == Flat(call.inside)[i]
    IN c.op = op /\ c.sender = sender /\ c.who = who /\ c.err = ""

\* such a call stays: the call it was made from went through as well
WentInside(call, op, sender, who) ==
  call.err = "" /\ CalledInside(call, op, sender, who)

\* such a call is discarded: the call it was made from reverted
DiscardedInside(call, op, sender, who) ==
  call.err # "" /\ CalledInside(call, op, sender, who)

TransferErrors == {"Transfer to recipient failed", "Fee transfer failed"}
LimitErrors == {"Exceeds per-transaction limit", "Exceeds daily limit"}

\* C1 Conservation: every fund's balance is its initial balance (0) plus its
\* successful deposits, minus its successful withdrawals, minus amount + fee
\* over its successful purchases; failed calls contribute nothing.
C1_Conservation ==
  \A f \in Funds :
    fundAccounts[f].balance =
      calls[f].deposited - calls[f].withdrawn
        - TotalCost(IdsOf(f, Len(purchases)))

\* fund1 has deposited twice, withdrawn twice and paid for two purchases at
\* different fees, fund2 has paid for one, and the last call failed
C1_Witness ==
  /\ calls["fund1"].deposited = 300
  /\ calls["fund1"].withdrawn = 180
  /\ Len(purchases) = 3
  /\ purchases[1].fund = "fund1" /\ purchases[1].fee = 1
  /\ purchases[2].fund = "fund2"
  /\ purchases[3].fund = "fund1" /\ purchases[3].fee = 5
  /\ fundAccounts["fund1"].balance = 300 - 180 - 51 - 55
  /\ last.err # ""

\* C2 Rollback on transfer failure: a purchase whose transfer to the
\* recipient or to the treasury fails leaves the fund's balance and
\* todaySpent at their values before the call and appends no Purchase.
C2_RollbackOnTransferFailure ==
  last.op = "purchaseOnBehalf" /\ last.err \in TransferErrors =>
    /\ fundAccounts[last.fund].balance = last.before.fundAccounts[last.fund].balance
    /\ fundAccounts[last.fund].todaySpent = last.before.fundAccounts[last.fund].todaySpent
    /\ purchases = last.before.purchases
    /\ fundPurchaseIndices = last.before.fundPurchaseIndices

\* the fee transfer failed after the balance had been debited and after the
\* owner had named another treasury from inside the transfer to the
\* recipient: the debit and the new treasury went with the call
C2_Witness ==
  /\ last.op = "purchaseOnBehalf"
  /\ last.err = "Fee transfer failed"
  /\ last.transfers = <<TRUE, FALSE>>
  /\ fundAccounts[last.fund].balance >= last.amount
  /\ DiscardedInside(last, "setTreasury", Owner, "treasury2")
  /\ treasury = last.before.treasury
  /\ treasury # "treasury2"

\* C3 Atomic purchase: a purchase that fails at any step leaves the fund's
\* account (balance, todaySpent, lastResetDay), the ledger, the per-fund
\* index and the token balances as before the call; the day reset that ran
\* before the failing check is undone too.
C3_FailedPurchaseChangesNothing ==
  last.op = "purchaseOnBehalf" /\ last.err # "" => Current = last.before

\* the fee transfer failed on a new day, after the fund had revoked the
\* bot from inside the transfer to the recipient: the reset, the debit and
\* the revocation are not visible
C3_Witness ==
  /\ last.op = "purchaseOnBehalf"
  /\ last.err = "Fee transfer failed"
  /\ last.seen.todaySpent = 0
  /\ last.seen.lastResetDay > fundAccounts[last.fund].lastResetDay
  /\ DiscardedInside(last, "revokeBot", last.fund, last.sender)
  /\ last.sender \in fundAccounts[last.fund].authorizedBots
  /\ fundAccounts[last.fund].balance >= last.amount

\* C4 as stated: the bot of a purchase that went through is in the fund's
\* authorizedBots when the purchase is committed.
C4_MemberAtCommit ==
  last.op = "purchaseOnBehalf" /\ last.err = "" =>
    purchases[Len(purchases)].bot
      \in fundAccounts[purchases[Len(purchases)].fund].authorizedBots

\* C4 Authorization gate: a purchase by a bot that is not in the fund's
\* authorizedBots when it is called never succeeds, and it fails with "Bot
\* not authorized" once the recipient and amount checks before it have
\* passed; the purchase just appended names a bot that was in its fund's
\* authorizedBots when the call checked it.  The bot is still in the set
\* when the purchase is committed unless the fund revoked it from inside
\* one of the call's transfers.
C4_AuthorizationGate ==
  last.op = "purchaseOnBehalf" =>
    /\ last.sender \notin last.before.fundAccounts[last.fund].authorizedBots =>
         /\ last.err # ""
         /\ (last.who # Null /\ last.amount > 0 => last.err = "Bot not authorized")
    /\ last.err = "" =>
         /\ purchases[Len(purchases)].bot = last.sender
         /\ purchases[Len(purchases)].fund = last.fund
         /\ last.sender \in last.seen.authorizedBots
         /\ last.sender \in last.before.fundAccounts[last.fund].authorizedBots
         /\ last.sender \notin fundAccounts[last.fund].authorizedBots =>
              WentInside(last, "revokeBot", last.fund, last.sender)

\* a bot whose purchase went through although the fund revoked it from
\* inside the transfer to the recipient was refused the next one
C4_Witness ==
  /\ last.op = "purchaseOnBehalf"
  /\ last.err = "Bot not authorized"
  /\ Len(purchases) > 0
  /\ purchases[Len(purchases)].bot = last.sender
  /\ purchases[Len(purchases)].fund = last.fund
  /\ fundAccounts[last.fund].balance > last.amount

\* C5 Per-transaction limit boundary: with perTransactionLimit = L # 0, an
\* authorized purchase of exactly L goes through when the daily limit and
\* the balance permit (and the token does not refuse the transfers), a
\* purchase of L + 1 fails with "Exceeds per-transaction limit", and no
\* purchase above L is appended.
C5_PerTransactionBoundary ==
  last.op = "purchaseOnBehalf" =>
    LET account == last.seen
        L == account.perTransactionLimit
        D == account.dailySpendingLimit
        fee == (L * last.before.platformFeeBps) \div BPS_DIVISOR
    IN L # 0 /\ last.sender \in account.authorizedBots /\ last.who # Null =>
         /\ last.amount = L /\ (D = 0 \/ account.todaySpent + L <= D)
              /\ account.balance >= L + fee
              => last.err = "" \/ last.err \in TransferErrors
         /\ last.amount = L + 1 => last.err = "Exceeds per-transaction limit"
         /\ last.err = "" => last.amount <= L

\* a purchase of exactly L is in the ledger and one of L + 1 was just refused
C5_Witness ==
  /\ last.op = "purchaseOnBehalf"
  /\ last.err = "Exceeds per-transaction limit"
  /\ last.amount = fundAccounts[last.fund].perTransactionLimit + 1
  /\ \E i \in 1..Len(purchases) :
       /\ purchases[i].fund = last.fund
       /\ purchases[i].amount = fundAccounts[last.fund].perTransactionLimit

\* C6 Daily limit rule: with dailySpendingLimit = D # 0, a purchase that has
\* passed the recipient, amount, authorization and per-transaction checks
\* fails with "Exceeds daily limit" exactly when todaySpent, after the
\* new-day reset, plus amount exceeds D; todaySpent + amount = D passes.
C6_DailyLimitRule ==
  last.op = "purchaseOnBehalf" =>
    LET account == last.seen
        L == account.perTransactionLimit
        D == account.dailySpendingLimit
    IN D # 0 /\ last.who # Null /\ last.amount > 0
         /\ last.sender \in account.authorizedBots
         /\ (L = 0 \/ last.amount <= L) =>
         (last.err = "Exceeds daily limit" <=> account.todaySpent + last.amount > D)

\* the day's spending stands at exactly D and one more purchase was refused
C6_Witness ==
  /\ last.op = "purchaseOnBehalf"
  /\ last.err = "Exceeds daily limit"
  /\ last.seen.dailySpendingLimit # 0
  /\ last.seen.todaySpent = last.seen.dailySpendingLimit
  /\ last.seen.lastResetDay = fundAccounts[last.fund].lastResetDay
  /\ Len(purchases) > 0

\* this step is a call of purchaseOnBehalf (the clock stands still during a call)
PurchaseStep == ticks' = ticks /\ last'.op = "purchaseOnBehalf"

RECURSIVE SpentOn(_, _, _)
\* the principal that fund f's purchases among purchases[1..n] spent on day
SpentOn(f, day, n) ==
  IF n = 0 THEN 0
  ELSE SpentOn(f, day, n - 1)
         + (IF purchases[n].fund = f /\ purchases[n].timestamp \div DAY = day
              THEN purchases[n].amount ELSE 0)

\* C7 Daily reset: with dailySpendingLimit = 2 * perTransactionLimit, a
\* purchase at the per-transaction limit succeeds while the fund's purchases
\* of the current day index sum to at most one limit (so two succeed in one
\* day, and the first of a later day succeeds with todaySpent equal to its
\* principal alone), and fails with "Exceeds daily limit" once they sum to
\* the daily limit.
C7_DailyReset ==
  [][PurchaseStep =>
       LET f == last'.fund
           account == fundAccounts[f]
           L == account.perTransactionLimit
           spent == SpentOn(f, now \div DAY, Len(purchases))
           fee == (L \div BPS_DIVISOR) * platformFeeBps
       IN L # 0 /\ account.dailySpendingLimit = 2 * L /\ last'.amount = L
            /\ last'.sender \in account.authorizedBots /\ last'.who # Null
            /\ account.balance >= L + fee /\ last'.err \notin TransferErrors =>
            /\ spent <= L =>
                 last'.err = "" /\ fundAccounts'[f].todaySpent = spent + L
            /\ spent >= 2 * L =>
                 /\ last'.err = "Exceeds daily limit"
                 /\ fundAccounts'[f].todaySpent = fundAccounts[f].todaySpent]_vars

\* two purchases at the limit on one day, then one a full day later, after
\* which todaySpent is that one's principal
C7_Witness ==
  /\ Len(purchases) = 3
  /\ last.op = "purchaseOnBehalf" /\ last.err = "" /\ last.ret = 2
  /\ last.seen.dailySpendingLimit = 2 * last.seen.perTransactionLimit
  /\ \A i \in 1..3 : purchases[i].amount = last.seen.perTransactionLimit
  /\ purchases[1].timestamp \div DAY = purchases[2].timestamp \div DAY
  /\ purchases[3].timestamp >= purchases[2].timestamp + DAY
  /\ last.before.fundAccounts[last.fund].todaySpent = 2 * purchases[3].amount
  /\ fundAccounts[last.fund].todaySpent = purchases[3].amount

\* the end-to-end scenario after k purchases: fund1 deposited 1000 dollars,
\* authorized bot1, set the limits to 500 and 150 dollars, the fee is 2%, and
\* bot1 has bought k times for 150 dollars, all on the current day
EndToEnd(k) ==
  /\ calls["fund1"].deposited = 1000 * Dollar
  /\ calls["fund1"].withdrawn = 0
  /\ "bot1" \in fundAccounts["fund1"].authorizedBots
  /\ fundAccounts["fund1"].dailySpendingLimit = 500 * Dollar
  /\ fundAccounts["fund1"].perTransactionLimit = 150 * Dollar
  /\ platformFeeBps = 200
  /\ Len(purchases) = k
  /\ \A i \in 1..k :
       /\ purchases[i].fund = "fund1"
       /\ purchases[i].amount = 150 * Dollar
       /\ purchases[i].timestamp \div DAY = now \div DAY

\* bot1 asks for one more 150 dollar purchase and the token does not refuse
EndToEndPurchase ==
  /\ PurchaseStep
  /\ last'.sender = "bot1" /\ last'.fund = "fund1" /\ last'.who # Null
  /\ last'.amount = 150 * Dollar
  /\ last'.err \notin TransferErrors

EndToEndFirstTwo ==
  /\ EndToEnd(0) /\ EndToEndPurchase =>
       /\ last'.err = ""
       /\ fundAccounts'["fund1"].balance = 847 * Dollar
       /\ fundAccounts'["fund1"].todaySpent = 150 * Dollar
  /\ EndToEnd(1) /\ EndToEndPurchase =>
       /\ last'.err = ""
       /\ fundAccounts'["fund1"].todaySpent = 300 * Dollar

\* C8 as amended: the first purchase leaves balance 847 and todaySpent 150,
\* the second todaySpent 300, the third succeeds too (450 <= 500) and leaves
\* balance 541 and todaySpent 450; the fourth of the day fails with "Exceeds
\* daily limit" and leaves balance and todaySpent as after the third.
C8_EndToEnd ==
  [][/\ EndToEndFirstTwo
     /\ EndToEnd(2) /\ EndToEndPurchase =>
          /\ last'.err = ""
          /\ fundAccounts'["fund1"].balance = 541 * Dollar
          /\ fundAccounts'["fund1"].todaySpent = 450 * Dollar
     /\ EndToEnd(3) /\ EndToEndPurchase =>
          /\ last'.err = "Exceeds daily limit"
          /\ fundAccounts'["fund1"].balance = fundAccounts["fund1"].balance
          /\ fundAccounts'["fund1"].todaySpent = fundAccounts["fund1"].todaySpent]_vars

\* the fourth purchase of the day was refused
C8_Witness ==
  /\ EndToEnd(3)
  /\ last.op = "purchaseOnBehalf" /\ last.err = "Exceeds daily limit"
  /\ fundAccounts["fund1"].balance = 541 * Dollar
  /\ fundAccounts["fund1"].todaySpent = 450 * Dollar

\* C8 as stated: the third 150 dollar purchase of the day fails with
\* "Exceeds daily limit" and leaves balance and todaySpent as after the second.
C8_ThirdPurchaseFails ==
  [][/\ EndToEndFirstTwo
     /\ EndToEnd(2) /\ EndToEndPurchase =>
          /\ last'.err = "Exceeds daily limit"
          /\ fundAccounts'["fund1"].balance = fundAccounts["fund1"].balance
          /\ fundAccounts'["fund1"].todaySpent = fundAccounts["fund1"].todaySpent]_vars

\* the last call was a purchase that went through
Purchased == last.op = "purchaseOnBehalf" /\ last.err = ""

\* the fee a purchase that went through charged: what the fund's balance
\* lost beyond the principal
FeeCharged ==
  last.before.fundAccounts[last.fund].balance
    - fundAccounts[last.fund].balance - last.amount

\* the treasury the fee of the last purchase went to: the one in storage
\* when the fee transfer was requested, named before the call or from
\* inside the transfer to the recipient
FeeTreasury ==
  LET named == SelectSeq(last.inside[1],
                         LAMBDA c : c.op = "setTreasury" /\ c.err = "")
  IN IF named = <<>> THEN last.before.treasury ELSE named[Len(named)].who

\* C9 Fee exactness: the fee a purchase charges is the floor of
\* amount * bps / 10000, i.e. fee * 10000 <= amount * bps < (fee + 1) * 10000;
\* at the rate in storage when the purchase is called; the treasury
\* receives it and the ledger records it.  With
\* amount = q * 10000 + r the bounds are stated on excess = fee - q * bps,
\* which keeps the products small: excess * 10000 <= r * bps < (excess + 1) * 10000.
C9_FeeExactness ==
  Purchased =>
    LET bps == last.before.platformFeeBps
        q == last.amount \div BPS_DIVISOR
        r == last.amount % BPS_DIVISOR
        excess == FeeCharged - q * bps
    IN /\ bps \in 0..MAX_PLATFORM_FEE_BPS
       /\ excess * BPS_DIVISOR <= r * bps
       /\ r * bps < (excess + 1) * BPS_DIVISOR
       /\ purchases[last.ret + 1].fee = FeeCharged
       /\ tok[FeeTreasury] = last.before.tok[FeeTreasury] + FeeCharged

\* a purchase whose exact fee has a fraction of at least one half
C9_Witness ==
  /\ Purchased
  /\ 2 * (((last.amount % BPS_DIVISOR) * last.before.platformFeeBps) % BPS_DIVISOR)
       >= BPS_DIVISOR
  /\ FeeCharged > 0

\* a purchase of 33.33 dollars at 200 bps
FeeExample ==
  Purchased /\ last.amount = 33330000 /\ last.before.platformFeeBps = 200

\* C10 as amended: at 200 bps the fee for amount = 33_330000 is 666600
\* (6_666_000_000 / 10000, which divides exactly).
C10_FeeExample == FeeExample => FeeCharged = 666600

C10_Witness == FeeExample /\ purchases[last.ret + 1].fee = 666600

\* C10 as stated: at 200 bps the fee for amount = 33_330000 is 666.
C10_FeeExampleAsStated == FeeExample => FeeCharged = 666

\* the calls addressed to one fund
FundOps ==
  {"deposit", "withdraw", "authorizeBot", "revokeBot", "setLimits", "purchaseOnBehalf"}

\* C11 Authorization isolation: a successful authorizeBot or revokeBot of
\* fund F1 leaves authorizedBots[B] of every other fund F2 as it was, for
\* every bot B; authorizing B for F1 never makes B authorized for F2.
C11_AuthorizationIsolation ==
  last.op \in {"authorizeBot", "revokeBot"} /\ last.err = "" =>
    \A f2 \in Funds \ {last.fund} : \A b \in Bots :
      (b \in fundAccounts[f2].authorizedBots)
        <=> (b \in last.before.fundAccounts[f2].authorizedBots)

\* fund F1 has just authorized a bot that another fund has not authorized
C11_Witness ==
  /\ last.op = "authorizeBot" /\ last.err = ""
  /\ last.who \in fundAccounts[last.fund].authorizedBots
  /\ \E f2 \in Funds \ {last.fund} :
       /\ last.who \notin fundAccounts[f2].authorizedBots
       /\ fundAccounts[f2].balance > 0

\* C12 Fund isolation: a call addressed to fund F1, whether it succeeds or
\* fails, leaves the account (balance, limits, todaySpent, lastResetDay,
\* authorizedBots) and the purchase index of every other fund F2 unchanged.
\* (What F2 calls itself from inside a transfer of F1's call is a call
\* addressed to F2: it stays with F1's call and changes F2's bots or limits
\* only.)
C12_FundIsolation ==
  last.op \in FundOps =>
    \A f2 \in Funds \ {last.fund} :
      LET own == /\ last.err = ""
                 /\ \E i \in 1..Len(Flat(last.inside)) :
                      /\ Flat(last.inside)[i].sender = f2
                      /\ Flat(last.inside)[i].fund = f2
                      /\ Flat(last.inside)[i].err = ""
      IN /\ ~own => fundAccounts[f2] = last.before.fundAccounts[f2]
         /\ fundAccounts[f2].balance = last.before.fundAccounts[f2].balance
         /\ fundAccounts[f2].todaySpent = last.before.fundAccounts[f2].todaySpent
         /\ fundAccounts[f2].lastResetDay = last.before.fundAccounts[f2].lastResetDay
         /\ fundPurchaseIndices[f2] = last.before.fundPurchaseIndices[f2]

\* a purchase for F1 on a new day went through while F2, with other limits
\* and bots, still holds yesterday's spending
C12_Witness ==
  /\ last.op = "purchaseOnBehalf" /\ last.err = ""
  /\ \E f2 \in Funds \ {last.fund} :
       /\ fundAccounts[f2].todaySpent > 0
       /\ fundAccounts[f2].lastResetDay < fundAccounts[last.fund].lastResetDay
       /\ fundPurchaseIndices[f2] # <<>>
       /\ fundAccounts[f2].perTransactionLimit # fundAccounts[last.fund].perTransactionLimit

\* C13 Fee-rate bound: platformFeeBps is within 0..1000 in every reachable
\* state and is 200 after construction; the owner's setPlatformFee(newBps)
\* fails with "Fee too high" and leaves the rate unchanged when
\* newBps > 1000, and succeeds, setting the rate, for newBps = 1000.
C13_FeeRateBound ==
  /\ platformFeeBps \in 0..1000
  /\ last.op = "constructor" => platformFeeBps = 200
  /\ last.op = "setPlatformFee" /\ last.sender = Owner =>
       /\ last.amount > 1000 =>
            last.err = "Fee too high" /\ platformFeeBps = last.before.platformFeeBps
       /\ last.amount = 1000 => last.err = "" /\ platformFeeBps = 1000

\* the owner raised the rate to 1000 and was then refused 1001
C13_Witness ==
  /\ last.op = "setPlatformFee" /\ last.sender = Owner
  /\ last.amount = 1001 /\ last.err = "Fee too high"
  /\ platformFeeBps = 1000

\* C14 Limit ordering: for every fund, dailySpendingLimit # 0 implies
\* perTransactionLimit <= dailySpendingLimit; setLimits(daily, perTx) fails
\* with "Per-tx limit exceeds daily limit" exactly when daily # 0 and
\* perTx > daily, and otherwise stores both limits.
C14_LimitOrdering ==
  /\ \A f \in Funds :
       fundAccounts[f].dailySpendingLimit # 0 =>
         fundAccounts[f].perTransactionLimit <= fundAccounts[f].dailySpendingLimit
  /\ last.op = "setLimits" =>
       /\ last.err = "Per-tx limit exceeds daily limit"
            <=> (last.amount # 0 /\ last.arg2 > last.amount)
       /\ last.err # "Per-tx limit exceeds daily limit" =>
            /\ last.err = ""
            /\ fundAccounts[last.fund].dailySpendingLimit = last.amount
            /\ fundAccounts[last.fund].perTransactionLimit = last.arg2

\* a per-transaction limit was accepted without a daily limit, after equal
\* limits had been accepted and misordered ones refused
C14_Witness ==
  /\ last.op = "setLimits" /\ last.err = ""
  /\ last.amount = 0 /\ last.arg2 > 0
  /\ last.before.fundAccounts[last.fund].dailySpendingLimit # 0
  /\ last.before.fundAccounts[last.fund].perTransactionLimit
       = last.before.fundAccounts[last.fund].dailySpendingLimit

\* C15 Ledger append-only: across every call getTotalPurchases does not
\* decrease and getPurchase(id) returns, for every id that existed before the
\* call, the record it returned before (fund, bot, recipient, amount, fee,
\* timestamp, metadata); setPlatformFee, setTreasury, revokeBot and setLimits
\* included.
C15_LedgerAppendOnly ==
  /\ getTotalPurchases(purchases) >= getTotalPurchases(last.before.purchases)
  /\ \A id \in 0..(getTotalPurchases(last.before.purchases) - 1) :
       getPurchase(purchases, id) = getPurchase(last.before.purchases, id)

\* with one purchase in the ledger, at the old fee and treasury, the fee and
\* the treasury were changed, the bot revoked and re-authorized, and a second
\* purchase went through
C15_Witness ==
  /\ Purchased
  /\ getTotalPurchases(purchases) = 2
  /\ getPurchase(purchases, 0).fee > 0
  /\ getPurchase(purchases, 1).fee = 0
  /\ treasury = "treasury2"
  /\ tok["treasury"] = getPurchase(purchases, 0).fee

\* C16 Dense purchase ids: a successful purchaseOnBehalf returns
\* getTotalPurchases as it was before the call (0 for the first purchase),
\* stores the call's purchase under that id and raises getTotalPurchases by
\* exactly 1; a failed purchaseOnBehalf and every other call leave it.
C16_DensePurchaseIds ==
  LET count == getTotalPurchases(purchases)
      countBefore == getTotalPurchases(last.before.purchases)
  IN IF Purchased
       THEN /\ last.ret = countBefore
            /\ count = countBefore + 1
            /\ getPurchase(purchases, last.ret).fund = last.fund
            /\ getPurchase(purchases, last.ret).bot = last.sender
            /\ getPurchase(purchases, last.ret).amount = last.amount
       ELSE count = countBefore

\* the second purchase got id 1
C16_Witness ==
  /\ Purchased
  /\ last.ret = 1
  /\ getTotalPurchases(purchases) = 2

\* C17 Per-fund index consistency: getFundPurchases(F) is strictly
\* increasing and holds exactly the ids below getTotalPurchases whose
\* purchase has fund = F, oldest first; it is empty for a fund without
\* purchases.
C17_PerFundIndex ==
  \A f \in Funds :
    LET ids == getFundPurchases(fundPurchaseIndices, f)
    IN /\ \A i, j \in 1..Len(ids) : i < j => ids[i] < ids[j]
       /\ \A id \in 0..(getTotalPurchases(purchases) - 1) :
            (\E i \in 1..Len(ids) : ids[i] = id)
              <=> getPurchase(purchases, id).fund = f
       /\ \A i \in 1..Len(ids) : ids[i] \in 0..(getTotalPurchases(purchases) - 1)

\* the two funds' purchases interleave: one fund holds ids 0 and 2, the
\* other id 1
C17_Witness ==
  \E f \in Funds : \E f2 \in Funds \ {f} :
    /\ getFundPurchases(fundPurchaseIndices, f) = <<0, 2>>
    /\ getFundPurchases(fundPurchaseIndices, f2) = <<1>>

RECURSIVE SumBalances(_)
\* the sum of the accounting balances of the funds in the set fs
SumBalances(fs) ==
  IF fs = {} THEN 0
  ELSE LET f == CHOOSE x \in fs : TRUE
       IN fundAccounts[f].balance + SumBalances(fs \ {f})

\* C18 Custody consistency: the tokens the vault holds equal the sum of all
\* funds' accounting balances in every reachable state, after successful and
\* failed calls alike (tokens move only through deposit, withdraw and
\* purchaseOnBehalf here).
C18_CustodyConsistency == tok[Vault] = SumBalances(Funds)

\* this step is a call made from inside the transfer of a waiting deposit,
\* withdraw or purchaseOnBehalf
NestedCall == frame.op # "none" /\ frame' = frame /\ last' # last

\* the storage of the funds that only deposit, withdraw and purchaseOnBehalf write
Money ==
  <<[f \in Funds |-> <<fundAccounts[f].balance, fundAccounts[f].todaySpent,
                       fundAccounts[f].lastResetDay>>],
    purchases, fundPurchaseIndices, tok>>

\* C19 as amended: while a deposit, withdraw or purchaseOnBehalf on fund F
\* waits for its transfer, no other purchaseOnBehalf, deposit or withdraw on
\* F takes effect: made from inside the transfer it reverts with
\* "ReentrancyGuard: reentrant call" and changes nothing.  authorizeBot,
\* revokeBot and setLimits on F are not guarded: made from inside the
\* transfer they take effect, and change only F's authorizedBots or limits,
\* never a balance, todaySpent, lastResetDay, the ledger, a token balance,
\* the fee rate or the treasury.
C19_SameFundSerialization ==
  [][NestedCall /\ last'.fund = frame.fund =>
       /\ last'.op \in {"purchaseOnBehalf", "deposit", "withdraw"} =>
            /\ last'.err = "ReentrancyGuard: reentrant call"
            /\ UNCHANGED <<fundAccounts, purchases, fundPurchaseIndices,
                           platformFeeBps, treasury, tok>>
       /\ last'.op \in {"authorizeBot", "revokeBot", "setLimits"} =>
            /\ Money' = Money
            /\ UNCHANGED <<platformFeeBps, treasury>>
            /\ \A f \in Funds \ {frame.fund} : fundAccounts'[f] = fundAccounts[f]]_vars

\* a withdrawal waits for the token; from inside the transfer the fund has
\* changed its limits and has then been refused a second withdrawal
C19_Witness ==
  /\ frame.op = "withdraw"
  /\ last.op = "withdraw" /\ last.fund = frame.fund
  /\ last.err = "ReentrancyGuard: reentrant call"
  /\ fundAccounts[frame.fund].perTransactionLimit
       # frame.before.fundAccounts[frame.fund].perTransactionLimit
  /\ fundAccounts[frame.fund].balance >= last.amount

\* C19 as stated: while a deposit, withdraw or purchaseOnBehalf on fund F
\* waits for its transfer, no other purchaseOnBehalf, deposit, withdraw, authorizeBot
\* or setLimits call on F, made from inside the transfer included, takes
\* effect.
C19_NoCallTakesEffect ==
  [][NestedCall /\ last'.fund = frame.fund
       /\ last'.op \in {"purchaseOnBehalf", "deposit", "withdraw", "authorizeBot", "setLimits"}
       => /\ last'.err # ""
          /\ UNCHANGED <<fundAccounts, purchases, fundPurchaseIndices,
                         platformFeeBps, treasury, tok>>]_vars

\* C20 Deposit and withdraw fail closed: when the token's transferFrom fails
\* in deposit the fund's balance is not increased, and when its transfer
\* fails in withdraw the decrement made before it is rolled back; after the
\* failed call the balance, and all storage, is as before the call.
C20_DepositWithdrawFailClosed ==
  last.op \in {"deposit", "withdraw"} /\ last.err = "Transfer failed" =>
    /\ fundAccounts[last.fund].balance = last.before.fundAccounts[last.fund].balance
    /\ Current = last.before
    /\ calls[last.fund].deposited - calls[last.fund].withdrawn
         - TotalCost(IdsOf(last.fund, Len(purchases)))
           = last.before.fundAccounts[last.fund].balance

\* the token refused the transfer of a withdrawal the balance covered,
\* after the fund had authorized a bot from inside that transfer: the
\* debit and the authorization went with the call
C20_Witness ==
  /\ last.op = "withdraw" /\ last.err = "Transfer failed"
  /\ last.transfers = <<FALSE>>
  /\ last.amount > 0
  /\ fundAccounts[last.fund].balance >= last.amount
  /\ DiscardedInside(last, "authorizeBot", last.fund, "bot1")
  /\ "bot1" \notin fundAccounts[last.fund].authorizedBots

\* C21 Withdraw guards: withdraw(amount) fails with "Amount must be greater
\* than 0" when amount = 0 and with "Insufficient balance" when amount
\* exceeds the balance, and leaves the balance; with 0 < amount <= balance
\* the token's transfer is requested, and when it goes through the balance
\* is lowered by exactly amount and the fund is paid amount, so the whole
\* balance can be withdrawn.
C21_WithdrawGuards ==
  last.op = "withdraw" =>
    LET balanceBefore == last.before.fundAccounts[last.fund].balance
        balance == fundAccounts[last.fund].balance
    IN /\ last.amount = 0 =>
            last.err = "Amount must be greater than 0" /\ balance = balanceBefore
       /\ last.amount > balanceBefore =>
            last.err = "Insufficient balance" /\ balance = balanceBefore
       /\ last.amount > 0 /\ last.amount <= balanceBefore =>
            /\ Len(last.transfers) = 1
            /\ last.err \in {"", "Transfer failed"}
       /\ last.amount > 0 /\ last.amount <= balanceBefore /\ last.transfers = <<TRUE>> =>
            /\ last.err = ""
            /\ balance = balanceBefore - last.amount
            /\ tok[last.fund] = last.before.tok[last.fund] + last.amount
            /\ tok[Vault] = last.before.tok[Vault] - last.amount

\* the whole balance was withdrawn
C21_Witness ==
  /\ last.op = "withdraw" /\ last.err = ""
  /\ last.amount = last.before.fundAccounts[last.fund].balance
  /\ last.amount > 0
  /\ fundAccounts[last.fund].balance = 0

\* C22 Deposit: deposit(amount) fails with "Amount must be greater than 0"
\* when amount = 0 and changes nothing; with amount > 0 and the token's
\* transferFrom going through it raises the balance by exactly amount, takes
\* amount from the fund's wallet into the vault, and reports the balance
\* after the call as newBalance.
C22_Deposit ==
  last.op = "deposit" =>
    LET balanceBefore == last.before.fundAccounts[last.fund].balance
        balance == fundAccounts[last.fund].balance
    IN /\ last.amount = 0 =>
            last.err = "Amount must be greater than 0" /\ Current = last.before
       /\ last.amount > 0 /\ last.transfers = <<TRUE>> =>
            /\ last.err = ""
            /\ balance = balanceBefore + last.amount
            /\ last.ret = balance
            /\ tok[last.fund] = last.before.tok[last.fund] - last.amount
            /\ tok[Vault] = last.before.tok[Vault] + last.amount

\* a second deposit was added to the first
C22_Witness ==
  /\ last.op = "deposit" /\ last.err = ""
  /\ last.before.fundAccounts[last.fund].balance > 0
  /\ calls[last.fund].deposited = 2 * last.amount
  /\ last.ret = last.before.fundAccounts[last.fund].balance + last.amount

\* C23 Authorization errors: authorizeBot(bot) fails with "Invalid bot
\* address" for the null address and with "Bot already authorized" for a
\* member; revokeBot(bot) fails with "Bot not authorized" for a non-member;
\* a failure leaves authorizedBots, a successful authorizeBot adds exactly
\* bot, a successful revokeBot removes exactly bot.
C23_AuthorizationErrors ==
  LET botsBefore == last.before.fundAccounts[last.fund].authorizedBots
      bots == fundAccounts[last.fund].authorizedBots
  IN /\ last.op = "authorizeBot" =>
          /\ last.who = Null => last.err = "Invalid bot address"
          /\ last.who \in botsBefore => last.err = "Bot already authorized"
          /\ last.who # Null /\ last.who \notin botsBefore => last.err = ""
          /\ bots = IF last.err = "" THEN botsBefore \cup {last.who} ELSE botsBefore
     /\ last.op = "revokeBot" =>
          /\ last.who \notin botsBefore <=> last.err = "Bot not authorized"
          /\ last.who \in botsBefore <=> last.err = ""
          /\ bots = IF last.err = "" THEN botsBefore \ {last.who} ELSE botsBefore

\* with two bots authorized, one was revoked and the other stayed
C23_Witness ==
  /\ last.op = "revokeBot" /\ last.err = ""
  /\ Cardinality(last.before.fundAccounts[last.fund].authorizedBots) = 2
  /\ Cardinality(fundAccounts[last.fund].authorizedBots) = 1
  /\ last.who \notin fundAccounts[last.fund].authorizedBots

\* C24 Admin-only policy changes: setPlatformFee and setTreasury called by
\* anyone but the owner, directly or from inside a transfer, fail with
\* "Ownable: caller is not the owner", and no call by anyone but the owner
\* changes platformFeeBps or treasury: they differ after such a call only by
\* what the owner set from inside its transfers.
C24_AdminOnly ==
  /\ last.op # "constructor" /\ last.sender # Owner =>
       /\ last.op \in {"setPlatformFee", "setTreasury"} =>
            last.err = "Ownable: caller is not the owner"
       /\ platformFeeBps # last.before.platformFeeBps =>
            /\ WentInside(last, "setPlatformFee", Owner, Null)
            /\ \E i \in 1..Len(Flat(last.inside)) :
                 /\ Flat(last.inside)[i].op = "setPlatformFee"
                 /\ Flat(last.inside)[i].sender = Owner
                 /\ Flat(last.inside)[i].amount = platformFeeBps
       /\ treasury # last.before.treasury =>
            WentInside(last, "setTreasury", Owner, treasury)
  /\ \A i \in 1..Len(Flat(last.inside)) :
       LET c == Flat(last.inside)[i]
       IN c.op \in {"setPlatformFee", "setTreasury"} /\ c.sender # Owner =>
            c.err = "Ownable: caller is not the owner"

\* from inside the transfer of its own withdrawal, which went through, a
\* fund with money asked for a treasury the owner could have set
C24_Witness ==
  /\ last.op = "withdraw" /\ last.err = ""
  /\ \E i \in 1..Len(Flat(last.inside)) :
       LET c == Flat(last.inside)[i]
       IN /\ c.op = "setTreasury" /\ c.sender = last.sender
          /\ c.who \notin {Null, treasury}
          /\ c.err = "Ownable: caller is not the owner"
  /\ treasury = last.before.treasury
  /\ fundAccounts[last.sender].balance > 0

\* C25 Treasury is never null: the constructor refuses a null treasury,
\* setTreasury(null) fails with "Invalid treasury address" and leaves the
\* treasury, and so the treasury is never the null address.
C25_TreasuryNeverNull ==
  /\ treasury # Null
  /\ last.op = "setTreasury" /\ last.sender = Owner =>
       /\ last.who = Null <=> last.err = "Invalid treasury address"
       /\ last.who = Null => treasury = last.before.treasury
       /\ last.who # Null => last.err = "" /\ treasury = last.who

\* the owner moved the treasury and was then refused the null address
C25_Witness ==
  /\ last.op = "setTreasury" /\ last.sender = Owner
  /\ last.who = Null /\ last.err = "Invalid treasury address"
  /\ treasury = "treasury2"

\* C26 Ledger lookup range: getPurchase(id) fails with "Invalid purchase ID"
\* exactly when id >= getTotalPurchases(), and for every id below the count
\* it returns the record stored under that id.
C26_LookupRange ==
  \A id \in 0..(getTotalPurchases(purchases) + 1) :
    /\ GetPurchaseError(purchases, id) = "Invalid purchase ID"
         <=> id >= getTotalPurchases(purchases)
    /\ id < getTotalPurchases(purchases) =>
         /\ GetPurchaseError(purchases, id) = ""
         /\ getPurchase(purchases, id) = purchases[id + 1]

\* with two purchases recorded, id 1 is found and id 2 is refused
C26_Witness ==
  /\ getTotalPurchases(purchases) = 2
  /\ GetPurchaseError(purchases, 1) = ""
  /\ getPurchase(purchases, 1) = purchases[2]
  /\ GetPurchaseError(purchases, 2) = "Invalid purchase ID"

\* the checks of a purchase that would fail, taken one by one from the
\* storage before the call and the day's spending as the call read it
Failing ==
  LET account == last.before.fundAccounts[last.fund]
      spent == last.seen.todaySpent
      fee == (last.amount * last.before.platformFeeBps) \div BPS_DIVISOR
  IN [recipient |-> last.who = Null,
      amount |-> last.amount = 0,
      bot |-> last.sender \notin account.authorizedBots,
      perTransaction |-> account.perTransactionLimit # 0
                           /\ last.amount > account.perTransactionLimit,
      daily |-> account.dailySpendingLimit # 0
                  /\ spent + last.amount > account.dailySpendingLimit,
      balance |-> account.balance < last.amount + fee]

\* C27 Validation order: a purchase reports the error of the first failing
\* check in the order null recipient, zero amount, bot not authorized,
\* per-transaction limit, daily limit, balance, whatever later checks would
\* fail as well.
C27_ValidationOrder ==
  last.op = "purchaseOnBehalf" =>
    /\ Failing.recipient => last.err = "Invalid recipient"
    /\ ~Failing.recipient /\ Failing.amount => last.err = "Amount must be greater than 0"
    /\ ~Failing.recipient /\ ~Failing.amount /\ Failing.bot => last.err = "Bot not authorized"
    /\ ~Failing.recipient /\ ~Failing.amount /\ ~Failing.bot /\ Failing.perTransaction
         => last.err = "Exceeds per-transaction limit"
    /\ ~Failing.recipient /\ ~Failing.amount /\ ~Failing.bot /\ ~Failing.perTransaction
         /\ Failing.daily
         => last.err = "Exceeds daily limit"
    /\ ~Failing.recipient /\ ~Failing.amount /\ ~Failing.bot /\ ~Failing.perTransaction
         /\ ~Failing.daily /\ Failing.balance
         => last.err = "Insufficient balance"

\* an amount above the per-transaction limit, the daily limit and the
\* balance was refused for the per-transaction limit
C27_Witness ==
  /\ last.op = "purchaseOnBehalf"
  /\ last.err = "Exceeds per-transaction limit"
  /\ Failing.daily
  /\ Failing.balance

\* the purchase was made on a day after the fund's lastResetDay and was
\* refused by a limit check: the reset had run before the check
LimitFailureOnNewDay ==
  /\ last.op = "purchaseOnBehalf"
  /\ last.err \in LimitErrors
  /\ last.seen.lastResetDay > last.before.fundAccounts[last.fund].lastResetDay

\* C28 as stated: after a purchase refused by a limit check on a new day,
\* the reset stays: the stored todaySpent is 0 and the stored lastResetDay
\* is the day of the call.
C28_ResetKeptAsStated ==
  LimitFailureOnNewDay =>
    /\ fundAccounts[last.fund].todaySpent = 0
    /\ fundAccounts[last.fund].lastResetDay = last.seen.lastResetDay

\* C28 Limit-check failure undoes the day reset: after a purchase refused by
\* a limit check on a new day, where the check read todaySpent = 0 and
\* lastResetDay = the day of the call, the stored todaySpent and lastResetDay
\* are those of before the call; the reset went with the failed call.
C28_LimitFailureUndoesReset ==
  LimitFailureOnNewDay =>
    /\ last.seen.todaySpent = 0
    /\ fundAccounts[last.fund].todaySpent
         = last.before.fundAccounts[last.fund].todaySpent
    /\ fundAccounts[last.fund].lastResetDay
         = last.before.fundAccounts[last.fund].lastResetDay
    /\ fundAccounts[last.fund].lastResetDay < last.seen.lastResetDay

\* yesterday's spending is still stored after the per-transaction limit
\* refused today's first purchase
C28_Witness ==
  /\ LimitFailureOnNewDay
  /\ last.err = "Exceeds per-transaction limit"
  /\ fundAccounts[last.fund].todaySpent = fundAccounts[last.fund].perTransactionLimit
  /\ last.seen.lastResetDay = now \div DAY
  /\ Len(purchases) = 1

\* C29 Balance check includes the fee: a purchase that passes the recipient,
\* amount, authorization and limit checks fails with "Insufficient balance"
\* exactly when the balance is below amount + fee, so also when it covers
\* the amount alone; with balance = amount + fee and the transfers going
\* through it succeeds and leaves the balance at 0.
C29_BalanceIncludesFee ==
  last.op = "purchaseOnBehalf"
    /\ ~Failing.recipient /\ ~Failing.amount /\ ~Failing.bot
    /\ ~Failing.perTransaction /\ ~Failing.daily =>
    LET balanceBefore == last.before.fundAccounts[last.fund].balance
        fee == (last.amount * last.before.platformFeeBps) \div BPS_DIVISOR
    IN /\ last.err = "Insufficient balance" <=> balanceBefore < last.amount + fee
       /\ balanceBefore = last.amount + fee /\ last.transfers = <<TRUE, TRUE>> =>
            last.err = "" /\ fundAccounts[last.fund].balance = 0
       /\ last.err = "" =>
            fundAccounts[last.fund].balance = balanceBefore - (last.amount + fee)

\* a purchase took the whole balance: the amount and a fee above zero
C29_Witness ==
  /\ last.op = "purchaseOnBehalf" /\ last.err = ""
  /\ purchases[Len(purchases)].fee > 0
  /\ last.before.fundAccounts[last.fund].balance
       = last.amount + purchases[Len(purchases)].fee
  /\ fundAccounts[last.fund].balance = 0

\* C30 Spend counter counts principal only: a successful purchase raises
\* todaySpent, as it stands after the new-day reset, by exactly the amount,
\* whatever the fee rate and the fee; the fee comes out of the balance only.
C30_SpendCountsPrincipal ==
  Purchased =>
    LET fee == (last.amount * last.before.platformFeeBps) \div BPS_DIVISOR
    IN /\ fundAccounts[last.fund].todaySpent = last.seen.todaySpent + last.amount
       /\ last.seen.todaySpent \in {0, last.before.fundAccounts[last.fund].todaySpent}
       /\ FeeCharged = fee
       /\ purchases[Len(purchases)].fee = fee

\* a second purchase of the day at the highest rate: the fee of 5 on 50 was
\* paid and todaySpent went from 50 to 100
C30_Witness ==
  /\ Purchased
  /\ last.before.platformFeeBps = MAX_PLATFORM_FEE_BPS
  /\ FeeCharged > 0
  /\ last.seen.todaySpent > 0
  /\ last.seen.lastResetDay = last.before.fundAccounts[last.fund].lastResetDay
  /\ fundAccounts[last.fund].todaySpent = last.seen.todaySpent + last.amount
  /\ fundAccounts[last.fund].todaySpent = fundAccounts[last.fund].dailySpendingLimit

\* C31 as stated: a successful purchase uses the fee rate and the treasury
\* in force when the call was made throughout: the balance is debited
\* amount + fee, the recipient receives amount, that treasury receives fee,
\* and the Purchase appended records the same amount and fee.
C31_TreasuryOfCallStart ==
  Purchased =>
    LET fee == (last.amount * last.before.platformFeeBps) \div BPS_DIVISOR
        feeTo == last.before.treasury
    IN /\ fundAccounts[last.fund].balance
            = last.before.fundAccounts[last.fund].balance - (last.amount + fee)
       /\ tok[last.who] = last.before.tok[last.who] + last.amount
       /\ tok[feeTo] = last.before.tok[feeTo] + fee
       /\ tok[Vault] = last.before.tok[Vault] - (last.amount + fee)
       /\ purchases[Len(purchases)].amount = last.amount
       /\ purchases[Len(purchases)].fee = fee

\* the calls of op that went through from inside the transfers of the last
\* call, in order
SetInside(op) ==
  SelectSeq(Flat(last.inside), LAMBDA c : c.op = op /\ c.err = "")

\* C31 Consistent fee and treasury per purchase: a successful purchase uses
\* one fee, from the rate in force when the call was made, and one
\* treasury, the one in force when the fee transfer is requested (the
\* treasury at the start of the call, or the one set last from inside the
\* transfer to the recipient): the balance is debited amount + fee, the
\* recipient receives amount, that treasury receives fee and no other
\* treasury receives anything, and the Purchase appended records the same
\* amount and fee.  A rate or a treasury set from inside the transfer of the
\* fee, and a rate set from inside the transfer to the recipient, change
\* nothing of this purchase: they are in storage for the purchases after it.
C31_ConsistentFeeAndTreasury ==
  Purchased =>
    LET fee == (last.amount * last.before.platformFeeBps) \div BPS_DIVISOR
        feeTo == FeeTreasury
        treasuries == SetInside("setTreasury")
        rates == SetInside("setPlatformFee")
    IN /\ fundAccounts[last.fund].balance
            = last.before.fundAccounts[last.fund].balance - (last.amount + fee)
       /\ tok[last.who] = last.before.tok[last.who] + last.amount
       /\ tok[feeTo] = last.before.tok[feeTo] + fee
       /\ \A other \in Treasuries \ {feeTo} : tok[other] = last.before.tok[other]
       /\ tok[Vault] = last.before.tok[Vault] - (last.amount + fee)
       /\ purchases[Len(purchases)].amount = last.amount
       /\ purchases[Len(purchases)].fee = fee
       /\ treasury = IF treasuries = <<>> THEN last.before.treasury
                     ELSE treasuries[Len(treasuries)].who
       /\ platformFeeBps = IF rates = <<>> THEN last.before.platformFeeBps
                           ELSE rates[Len(rates)].amount

\* the owner set treasury2 and the rate 1000 from inside the purchase's
\* transfer to the recipient, and the first treasury and the rate 0 from
\* inside the transfer of the fee: the fee of the rate at the start went to
\* treasury2, which is the treasury neither before nor after the call
C31_Witness ==
  /\ Purchased
  /\ last.before.treasury = "treasury"
  /\ last.before.platformFeeBps = DEFAULT_FEE_BPS
  /\ treasury = "treasury"
  /\ platformFeeBps = 0
  /\ purchases[Len(purchases)].fee = 2
  /\ tok["treasury2"] = last.before.tok["treasury2"] + 2
  /\ tok["treasury"] = last.before.tok["treasury"]

\* C32 Day-index bucketing: a purchase of the whole daily limit D, by an
\* authorized bot with the per-transaction limit and the balance allowing
\* it, succeeds and leaves todaySpent = D whenever the day index of the call
\* is above the fund's lastResetDay, also when the fund's previous purchase
\* is less than one day old; so two purchases of D each can lie less than a
\* day apart, on the two sides of a day-index boundary.
C32_DayIndexBucketing ==
  [][PurchaseStep =>
       LET f == last'.fund
           account == fundAccounts[f]
           D == account.dailySpendingLimit
           fee == (D * platformFeeBps) \div BPS_DIVISOR
       IN D # 0 /\ last'.amount = D
            /\ last'.sender \in account.authorizedBots /\ last'.who # Null
            /\ PerTransactionOk(account, D)
            /\ account.balance >= D + fee /\ last'.err \notin TransferErrors
            /\ now \div DAY > account.lastResetDay =>
            /\ last'.err = ""
            /\ fundAccounts'[f].todaySpent = D
            /\ fundAccounts'[f].lastResetDay = now \div DAY]_vars

\* two purchases of the whole daily limit, half a day apart, on two day
\* indices
C32_Witness ==
  /\ Purchased
  /\ Len(purchases) = 2
  /\ purchases[1].fund = purchases[2].fund
  /\ purchases[1].amount = fundAccounts[last.fund].dailySpendingLimit
  /\ purchases[2].amount = fundAccounts[last.fund].dailySpendingLimit
  /\ purchases[2].timestamp - purchases[1].timestamp < DAY
  /\ purchases[2].timestamp \div DAY = purchases[1].timestamp \div DAY + 1
  /\ fundAccounts[last.fund].todaySpent = fundAccounts[last.fund].dailySpendingLimit

\* C33 Zero means unlimited: with dailySpendingLimit = 0 a purchase never
\* fails with "Exceeds daily limit", with perTransactionLimit = 0 never with
\* "Exceeds per-transaction limit"; with both 0 every purchase by an
\* authorized bot for a non-null recipient and a non-zero amount with
\* amount + fee <= balance succeeds when the transfers go through; and
\* todaySpent takes the principal all the same.
C33_ZeroMeansUnlimited ==
  last.op = "purchaseOnBehalf" =>
    LET account == last.before.fundAccounts[last.fund]
        fee == (last.amount * last.before.platformFeeBps) \div BPS_DIVISOR
    IN /\ account.dailySpendingLimit = 0 => last.err # "Exceeds daily limit"
       /\ account.perTransactionLimit = 0 => last.err # "Exceeds per-transaction limit"
       /\ account.dailySpendingLimit = 0 /\ account.perTransactionLimit = 0
            /\ last.sender \in account.authorizedBots /\ last.who # Null
            /\ last.amount > 0 /\ last.amount + fee <= account.balance
            /\ last.err \notin TransferErrors =>
            /\ last.err = ""
            /\ fundAccounts[last.fund].todaySpent = last.seen.todaySpent + last.amount

\* with both limits at 0 a second purchase of the day went through and
\* todaySpent stands at 200
C33_Witness ==
  /\ Purchased
  /\ fundAccounts[last.fund].dailySpendingLimit = 0
  /\ fundAccounts[last.fund].perTransactionLimit = 0
  /\ last.before.fundAccounts[last.fund].dailySpendingLimit = 0
  /\ last.seen.todaySpent = 100
  /\ last.amount = 100
  /\ fundAccounts[last.fund].todaySpent = 200

\* C34 setLimits overwrites unconditionally: a setLimits(daily, perTx) that
\* satisfies the ordering rule succeeds and stores both values, also when
\* daily is non-zero and below the fund's todaySpent, and changes nothing
\* else of the account (balance, todaySpent, lastResetDay, authorizedBots)
\* nor anything outside it; a rejected setLimits leaves both limits.
C34_SetLimitsOverwrites ==
  last.op = "setLimits" =>
    LET account == last.before.fundAccounts[last.fund]
    IN /\ last.amount = 0 \/ last.arg2 <= last.amount =>
            /\ last.err = ""
            /\ fundAccounts[last.fund] =
                 [account EXCEPT !.dailySpendingLimit = last.amount,
                                 !.perTransactionLimit = last.arg2]
            /\ Current = [last.before EXCEPT
                            !.fundAccounts[last.fund].dailySpendingLimit = last.amount,
                            !.fundAccounts[last.fund].perTransactionLimit = last.arg2]
       /\ last.err # "" =>
            /\ fundAccounts[last.fund].dailySpendingLimit = account.dailySpendingLimit
            /\ fundAccounts[last.fund].perTransactionLimit = account.perTransactionLimit
            /\ Current = last.before

\* a daily limit of 100 was accepted while todaySpent stood above it
C34_Witness ==
  /\ last.op = "setLimits" /\ last.err = ""
  /\ last.amount # 0
  /\ last.amount < last.before.fundAccounts[last.fund].todaySpent
  /\ fundAccounts[last.fund].dailySpendingLimit = last.amount
  /\ fundAccounts[last.fund].todaySpent > fundAccounts[last.fund].dailySpendingLimit

\* this step is a successful call op(bot) by fund f, or a call from
\* inside whose transfers fund f called op(bot) with success
BotCall(op, f, bot) ==
  \/ last'.op = op /\ last'.fund = f /\ last'.who = bot /\ last'.err = ""
  \/ WentInside(last', op, f, bot)

\* C35 Authorization has no expiry and revocation is immediate: a bot that
\* is authorized for a fund stays authorized across every step (day
\* boundaries and the calls of anyone) but a successful revokeBot of it by
\* the fund, and no purchase it tries on the fund meanwhile is refused for
\* the authorization; a bot that is not authorized stays so across every
\* step but a successful authorizeBot of it by the fund, and every purchase
\* it tries on the fund meanwhile fails, with "Bot not authorized" once the
\* recipient and the amount are accepted.
C35_NoExpiryImmediateRevocation ==
  [][\A f \in Funds, bot \in Bots :
       /\ bot \in fundAccounts[f].authorizedBots /\ ~BotCall("revokeBot", f, bot)
            => bot \in fundAccounts'[f].authorizedBots
       /\ bot \in fundAccounts[f].authorizedBots /\ PurchaseStep
            /\ last'.sender = bot /\ last'.fund = f
            => last'.err # "Bot not authorized"
       /\ bot \notin fundAccounts[f].authorizedBots /\ ~BotCall("authorizeBot", f, bot)
            => bot \notin fundAccounts'[f].authorizedBots
       /\ bot \notin fundAccounts[f].authorizedBots /\ PurchaseStep
            /\ last'.sender = bot /\ last'.fund = f
            => /\ last'.err # ""
               /\ last'.who # Null /\ last'.amount > 0
                    => last'.err = "Bot not authorized"]_vars

\* a bot that bought for the fund on two days, the second two days after
\* it was authorized, was revoked and is refused
C35_Witness ==
  /\ last.op = "purchaseOnBehalf" /\ last.err = "Bot not authorized"
  /\ Len(purchases) = 2
  /\ purchases[1].bot = last.sender /\ purchases[1].fund = last.fund
  /\ purchases[2].bot = last.sender /\ purchases[2].fund = last.fund
  /\ purchases[1].timestamp = StartTime
  /\ purchases[2].timestamp = StartTime + 2 * DAY
  /\ now = purchases[2].timestamp
  /\ last.sender \notin fundAccounts[last.fund].authorizedBots
  /\ fundAccounts[last.fund].balance > 0

\* C36 Balance frame: no balance is negative; a balance is higher after a
\* call than before only for the sender of a successful deposit, and lower
\* only for the sender of a successful withdraw or the fund of a successful
\* purchase; authorizeBot, revokeBot, setLimits, setPlatformFee, setTreasury
\* and every failed call leave every balance as it was.
C36_BalanceFrame ==
  /\ \A f \in Funds : fundAccounts[f].balance >= 0
  /\ last.op # "constructor" =>
       /\ \A f \in Funds :
            LET balanceBefore == last.before.fundAccounts[f].balance
                balance == fundAccounts[f].balance
            IN /\ balance > balanceBefore =>
                    last.op = "deposit" /\ last.sender = f /\ last.err = ""
               /\ balance < balanceBefore =>
                    \/ last.op = "withdraw" /\ last.sender = f /\ last.err = ""
                    \/ last.op = "purchaseOnBehalf" /\ last.fund = f /\ last.err = ""
       /\ last.err # "" \/ last.op \in {"authorizeBot", "revokeBot", "setLimits",
                                        "setPlatformFee", "setTreasury"} =>
            \A f \in Funds :
              fundAccounts[f].balance = last.before.fundAccounts[f].balance

\* the owner changed the treasury after a purchase had lowered one fund's
\* balance and a withdrawal the other's: both balances stayed
C36_Witness ==
  /\ last.op = "setTreasury" /\ last.err = ""
  /\ \E i \in 1..Len(purchases) : purchases[i].fund = "fund1"
  /\ fundAccounts["fund1"].balance > 0
  /\ fundAccounts["fund1"].balance < calls["fund1"].deposited
  /\ calls["fund2"].withdrawn > 0
  /\ fundAccounts["fund2"].balance = calls["fund2"].deposited - calls["fund2"].withdrawn
  /\ fundAccounts["fund2"].balance > 0
  /\ \A f \in Funds : fundAccounts[f].balance = last.before.fundAccounts[f].balance

\* each transfer leg of the last call was requested at most once, and a
\* refused leg ended the call in failure
TransferLegsOnce ==
  /\ last.op \in {"deposit", "withdraw"} =>
       /\ Len(last.transfers) <= 1
       /\ last.transfers = <<FALSE>> => last.err = "Transfer failed"
       /\ last.transfers = <<TRUE>> => last.err = ""
       /\ last.err = "Transfer failed" => last.transfers = <<FALSE>>
  /\ last.op = "purchaseOnBehalf" =>
       /\ Len(last.transfers) <= 2
       /\ Len(last.transfers) >= 1 /\ ~last.transfers[1] =>
            last.transfers = <<FALSE>> /\ last.err = "Transfer to recipient failed"
       /\ Len(last.transfers) = 2 /\ ~last.transfers[2] =>
            last.err = "Fee transfer failed"
       /\ last.transfers = <<TRUE, TRUE>> => last.err = ""
       /\ last.err = "Transfer to recipient failed" => last.transfers = <<FALSE>>
       /\ last.err = "Fee transfer failed" => last.transfers = <<TRUE, FALSE>>

\* C37 No operation blocks or retries: a deposit, withdraw or purchase
\* requests each of its transfer legs at most once and ends in failure when
\* a leg is refused, without asking again; and a deposit, withdraw or
\* purchase that waits for the token's transfer always comes to its end,
\* success or failure.
C37_NoBlockingNoRetry ==
  /\ []TransferLegsOnce
  /\ ~nonReentrant(frame) ~> nonReentrant(frame)

\* a purchase came to its end in failure after the token refused the
\* transfer to the recipient: one request, nothing changed
C37_Witness ==
  /\ last.op = "purchaseOnBehalf"
  /\ last.err = "Transfer to recipient failed"
  /\ last.transfers = <<FALSE>>
  /\ nonReentrant(frame)
  /\ Current = last.before
  /\ fundAccounts[last.fund].balance > last.amount

\* C38 Spend counter matches the ledger: for every fund, lastResetDay is not
\* lowered by any call and is at most the current day index, and todaySpent
\* is the sum of the amounts of the fund's Purchases whose timestamp lies in
\* day index lastResetDay (0 when there are none).
C38_SpendCounterMatchesLedger ==
  \A f \in Funds :
    /\ fundAccounts[f].lastResetDay >= last.before.fundAccounts[f].lastResetDay
    /\ fundAccounts[f].lastResetDay <= now \div DAY
    /\ fundAccounts[f].todaySpent
         = SpentOn(f, fundAccounts[f].lastResetDay, Len(purchases))

\* fund1 bought on two days and its counter holds the second day's purchase
\* alone; fund2 bought on the first day only and its counter still holds it
C38_Witness ==
  /\ Len(purchases) = 3
  /\ fundAccounts["fund1"].lastResetDay = now \div DAY
  /\ fundAccounts["fund2"].lastResetDay < now \div DAY
  /\ fundAccounts["fund1"].todaySpent = 100
  /\ fundAccounts["fund2"].todaySpent = 100
  /\ SpentOn("fund1", fundAccounts["fund2"].lastResetDay, Len(purchases)) = 100
  /\ purchases[3].fund = "fund1"

\* C39 Daily cap holds at every debit: right after a successful purchase on
\* a fund whose dailySpendingLimit, as the purchase read it, is D # 0,
\* todaySpent <= D, and the amounts of the fund's Purchases of that day
\* index sum to at most D.
C39_DailyCapAtEveryDebit ==
  Purchased =>
    LET account == fundAccounts[last.fund]
        D == last.seen.dailySpendingLimit
    IN D # 0 =>
         /\ account.todaySpent <= D
         /\ SpentOn(last.fund, account.lastResetDay, Len(purchases)) <= D
         /\ last.amount <= D

\* the second purchase of a day took the day's sum to the cap of 100, on a
\* fund that holds enough for more
C39_Witness ==
  /\ Purchased
  /\ Len(purchases) = 2
  /\ purchases[1].timestamp \div DAY = purchases[2].timestamp \div DAY
  /\ purchases[1].amount + purchases[2].amount = fundAccounts[last.fund].dailySpendingLimit
  /\ fundAccounts[last.fund].todaySpent = fundAccounts[last.fund].dailySpendingLimit
  /\ fundAccounts[last.fund].balance > 100

\* this step appends a Purchase of fund f: a successful purchase on f
PurchaseAppended(f) ==
  /\ Len(purchases') = Len(purchases) + 1
  /\ purchases'[Len(purchases')].fund = f

\* C40 Lazy reset: a fund's todaySpent and lastResetDay, stored and as
\* getFundAccount reports them, change only in a step that is a successful
\* purchase on that fund; the passage of time, deposit, withdraw,
\* authorizeBot, revokeBot, setLimits, failed purchases and the calls on
\* other funds leave them, so after a day boundary getFundAccount reports
\* the earlier day's todaySpent until the fund's next successful purchase.
C40_LazyReset ==
  [][\A f \in Funds :
       ~PurchaseAppended(f) =>
         /\ fundAccounts'[f].todaySpent = fundAccounts[f].todaySpent
         /\ fundAccounts'[f].lastResetDay = fundAccounts[f].lastResetDay
         /\ (getFundAccount(fundAccounts, f)[4])' = getFundAccount(fundAccounts, f)[4]
         /\ (getFundAccount(fundAccounts, f)[5])' = getFundAccount(fundAccounts, f)[5]]_vars

\* on the day after a purchase of 100 a purchase failed at its transfers,
\* after its reset had run: getFundAccount still reports 100 and the
\* earlier day
C40_Witness ==
  /\ last.op = "purchaseOnBehalf" /\ last.err \in TransferErrors
  /\ last.seen.todaySpent = 0
  /\ last.seen.lastResetDay = now \div DAY
  /\ getFundAccount(fundAccounts, last.fund)[4] = 100
  /\ getFundAccount(fundAccounts, last.fund)[5] < now \div DAY
  /\ getFundAccount(fundAccounts, last.fund)[5] = purchases[Len(purchases)].timestamp \div DAY

====
